---- MODULE Spec2Model ----
(***************************************************************************)
(* WebsiteForge: the control logic of the lead pipeline.                   *)
(*   Providers.js  callLLM / withRetry / the four provider adapters        *)
(*   GitHub.js     deployToGitHubPages (GET-for-SHA, then PUT)             *)
(*   Pipeline.js   phaseResearch, phaseBuild, phaseLog, phaseOutreach,     *)
(*                 runWebsiteForgePipeline                                 *)
(*                                                                         *)
(* A string of the program is a sequence of atoms.  A literal of the       *)
(* source is one atom; the characters of data (response bodies, model      *)
(* output) are one atom each.  Concatenation is \o.                        *)
(***************************************************************************)
EXTENDS Integers, Sequences, FiniteSets, TLC

VARIABLES
    llm,      \* llm[p]: the activation of callLLM made by process p
    gh,       \* gh[p]: the activation of deployToGitHubPages made by process p
    store,    \* the files of the GitHub repository (Contents API)
    pubLog,   \* the finished calls of deployToGitHubPages, oldest first
    sheet,    \* the 'Leads' tab: whether it has its header row, and its other rows
    mail,     \* the messages GmailApp accepted
    sms,      \* the requests Twilio accepted
    run,      \* run[p]: the activation of runWebsiteForgePipeline made by p
    calls,    \* how many direct calls of the library functions were started so far
    runs,     \* how many runs of the pipeline were started so far
    net,      \* net[p]: the external requests p made since its invocation began
    batch,    \* the activation of sendAllPending
    unit      \* a function of the script applied on its own: its input and its result

vars == <<llm, gh, store, pubLog, sheet, mail, sms, run, calls, runs, net, batch, unit>>

----
\* Bounds of the model.

\* direct calls of callLLM and of deployToGitHubPages per behaviour
MaxCalls == 2

\* runs of the pipeline per behaviour
MaxRuns == 1

\* the processes: an invocation of the script runs in a process of its own,
\* and two users or triggers can have one each at the same time
Procs == {1, 2}

\* the process of the invocations that are made one at a time
Solo == {1}

----
\* Strings.

\* JavaScript null where a string is expected
Null == <<"<null>">>

\* the empty string ''
Empty == <<>>

\* JavaScript truthiness of a string-or-null value
Truthy(s) == s # Null /\ s # Empty

Min(a, b) == IF a < b THEN a ELSE b

\* String.prototype.substring(0, n)
Substring0(s, n) == SubSeq(s, 1, Min(n, Len(s)))

Digit(d) == <<"0", "1", "2", "3", "4", "5", "6", "7", "8", "9">>[d + 1]

RECURSIVE NumToString(_)
\* the decimal rendering of a natural number ('' + code)
NumToString(n) ==
    IF n < 10 THEN <<Digit(n)>> ELSE NumToString(n \div 10) \o <<Digit(n % 10)>>

\* a response body of n characters, the i-th being the last digit of i
BodyOfLen(n) == [i \in 1..n |-> Digit(i % 10)]

RECURSIVE Pow2(_)
\* Math.pow(2, k)
Pow2(k) == IF k = 0 THEN 1 ELSE 2 * Pow2(k - 1)

UpperLetters ==
    <<"A", "B", "C", "D", "E", "F", "G", "H", "I", "J", "K", "L", "M",
      "N", "O", "P", "Q", "R", "S", "T", "U", "V", "W", "X", "Y", "Z">>

LowerLetters ==
    <<"a", "b", "c", "d", "e", "f", "g", "h", "i", "j", "k", "l", "m",
      "n", "o", "p", "q", "r", "s", "t", "u", "v", "w", "x", "y", "z">>

Range(f) == {f[i] : i \in DOMAIN f}

DigitChars == {"0", "1", "2", "3", "4", "5", "6", "7", "8", "9"}

\* the regular expressions' \s and \w
IsSpace(c) == c \in {" ", "\n", "\t"}

IsWord(c) == c \in Range(UpperLetters) \cup Range(LowerLetters) \cup DigitChars \cup {"_"}

LowerChar(c) ==
    IF c \in Range(UpperLetters)
    THEN LowerLetters[CHOOSE i \in DOMAIN UpperLetters : UpperLetters[i] = c]
    ELSE c

\* String.prototype.toLowerCase
ToLowerCase(s) == [i \in DOMAIN s |-> LowerChar(s[i])]

\* String.prototype.trim
Trim(s) ==
    LET keep == {i \in DOMAIN s : ~IsSpace(s[i])}
    IN IF keep = {} THEN Empty
       ELSE SubSeq(s, CHOOSE i \in keep : \A j \in keep : i <= j,
                      CHOOSE i \in keep : \A j \in keep : j <= i)

\* whether pat occurs in s at position i, letters compared without case
MatchesAtCI(s, pat, i) ==
    /\ i >= 1
    /\ i + Len(pat) - 1 <= Len(s)
    /\ \A k \in 1..Len(pat) : LowerChar(s[i + k - 1]) = LowerChar(pat[k])

\* the least member of a set of positions, 0 when there is none
LeastOr0(S) == IF S = {} THEN 0 ELSE CHOOSE i \in S : \A j \in S : i <= j

GreatestOr0(S) == IF S = {} THEN 0 ELSE CHOOSE i \in S : \A j \in S : j <= i

\* the first position >= from where pat occurs in s (without case), or 0
IndexOfCI(s, pat, from) == LeastOr0({i \in from..Len(s) : MatchesAtCI(s, pat, i)})

\* the last such position, or 0
LastIndexOfCI(s, pat, from) == GreatestOr0({i \in from..Len(s) : MatchesAtCI(s, pat, i)})

\* String.prototype.indexOf(c) !== -1
Contains(s, c) == \E i \in DOMAIN s : s[i] = c

RECURSIVE Filter(_, _)
\* s.replace(/[^...]/g, ''): the characters of s that lie in keep
Filter(s, keep) ==
    IF s = Empty THEN Empty
    ELSE (IF Head(s) \in keep THEN <<Head(s)>> ELSE Empty) \o Filter(Tail(s), keep)

----
\* Parser.js.

\* the labels of the tags, by name
Labels ==
    [name |-> <<"N", "A", "M", "E">>,
     niche |-> <<"N", "I", "C", "H", "E">>,
     slug |-> <<"S", "L", "U", "G">>,
     area |-> <<"A", "R", "E", "A">>,
     url |-> <<"U", "R", "L">>,
     email |-> <<"E", "M", "A", "I", "L">>,
     phone |-> <<"P", "H", "O", "N", "E">>,
     notes |-> <<"N", "O", "T", "E", "S">>,
     domain |-> <<"D", "O", "M", "A", "I", "N">>,
     cost |-> <<"C", "O", "S", "T">>,
     services |-> <<"S", "E", "R", "V", "I", "C", "E", "S">>,
     draft |-> <<"D", "R", "A", "F", "T">>]

OpenTag(label) == <<"<">> \o label \o <<">">>

CloseTag(label) == <<"<", "/">> \o label \o <<">">>

\* a variant that accepts no closing tag
AnyCloseTagAt_Never(s, i) == FALSE

\* whether <\/\w+> matches in s at position i
AnyCloseTagAt(s, i) ==
    /\ i + 3 <= Len(s)
    /\ s[i] = "<"
    /\ s[i + 1] = "/"
    /\ \E e \in (i + 3)..Len(s) :
        /\ s[e] = ">"
        /\ \A k \in (i + 2)..(e - 1) : IsWord(s[k])

\* a variant that returns the group as it was matched
Captured_Raw(text, start, close) == SubSeq(text, start, close - 1)

\* match[1].trim(), the group lying between start and the closing tag at close
Captured(text, start, close) == Trim(SubSeq(text, start, close - 1))

\* a variant that takes the match that accepts any closing tag
FirstMatch_Fuzzy(exact, fuzzy) == fuzzy

\* the closing tag of the exact match, that of the other match only when
\* there is no exact match; 0 for no match
FirstMatch(exact, fuzzy) == IF exact # 0 THEN exact ELSE fuzzy

\* extract(label) of extractBusinessData: the exact match first, then the
\* match that accepts any closing tag, '' when neither matches
extract(text, label) ==
    LET open == IndexOfCI(text, OpenTag(label), 1)
        start == open + Len(OpenTag(label))
        exact == IF open = 0 THEN 0 ELSE IndexOfCI(text, CloseTag(label), start)
        fuzzy == IF open = 0 THEN 0
                 ELSE LeastOr0({i \in start..Len(text) : AnyCloseTagAt(text, i)})
        close == FirstMatch(exact, fuzzy)
    IN IF close # 0 THEN Captured(text, start, close) ELSE Empty

extractBusinessData(text) ==
    [business_name |-> extract(text, Labels.name),
     niche |-> extract(text, Labels.niche),
     slug |-> extract(text, Labels.slug),
     area |-> extract(text, Labels.area),
     current_website_url |-> extract(text, Labels.url),
     target_email |-> extract(text, Labels.email),
     target_phone |-> extract(text, Labels.phone),
     research_notes_summary |-> extract(text, Labels.notes),
     suggested_domain |-> extract(text, Labels.domain),
     domain_cost |-> extract(text, Labels.cost),
     services |-> extract(text, Labels.services),
     email_draft |-> extract(text, Labels.draft)]

\* a variant that also requires an email address
RequiredFields_WithContact ==
    <<"business_name", "niche", "area", "email_draft", "target_email">>

RequiredFields == <<"business_name", "niche", "area", "email_draft">>

RECURSIVE MissingFrom(_, _)
\* the loop of validateBusinessData over required[i..]
MissingFrom(data, i) ==
    IF i > Len(RequiredFields) THEN <<>>
    ELSE (IF ~Truthy(data[RequiredFields[i]]) THEN <<RequiredFields[i]>> ELSE <<>>)
         \o MissingFrom(data, i + 1)

validateBusinessData(data) ==
    LET missing == MissingFrom(data, 1)
    IN [valid |-> Len(missing) = 0, missing |-> missing]

RECURSIVE DashRuns(_, _)
\* s.replace(/[^a-z0-9]+/g, '-'); inRun says the previous character was replaced
DashRuns(s, inRun) ==
    IF s = Empty THEN Empty
    ELSE IF Head(s) \in Range(LowerLetters) \cup DigitChars
         THEN <<Head(s)>> \o DashRuns(Tail(s), FALSE)
         ELSE (IF inRun THEN Empty ELSE <<"-">>) \o DashRuns(Tail(s), TRUE)

\* s.replace(/^-+|-+$/g, '')
StripDashes(s) ==
    LET keep == {i \in DOMAIN s : s[i] # "-"}
    IN IF keep = {} THEN Empty
       ELSE SubSeq(s, LeastOr0(keep), GreatestOr0(keep))

toSlug(name) ==
    LET fallback == <<"u", "n", "k", "n", "o", "w", "n", "-", "b", "u", "s", "i", "n", "e", "s", "s">>
    IN StripDashes(DashRuns(ToLowerCase(IF Truthy(name) THEN name ELSE fallback), FALSE))

\* the atom that stands for the backtick character
Backtick == "(backtick)"

\* the literal parts of the patterns of extractHTML and isValidHTML
Pat ==
    [fence |-> <<Backtick, Backtick, Backtick>>,
     html |-> <<"h", "t", "m", "l">>,
     doctype_word |-> <<"<", "!", "D", "O", "C", "T", "Y", "P", "E">>,
     doctype |-> <<"<", "!", "D", "O", "C", "T", "Y", "P", "E", " ", "h", "t", "m", "l", ">">>,
     html_open |-> <<"<", "h", "t", "m", "l">>,
     html_close |-> <<"<", "/", "h", "t", "m", "l", ">">>,
     body_open |-> <<"<", "b", "o", "d", "y">>]

\* the position after the whitespace that starts at i
SkipSpace(s, i) == LeastOr0({j \in i..(Len(s) + 1) : j = Len(s) + 1 \/ ~IsSpace(s[j])})

\* whether <!DOCTYPE\s+html matches in s at position i
DoctypeAt(s, i) ==
    /\ MatchesAtCI(s, Pat.doctype_word, i)
    /\ SkipSpace(s, i + Len(Pat.doctype_word)) > i + Len(Pat.doctype_word)
    /\ MatchesAtCI(s, Pat.html, SkipSpace(s, i + Len(Pat.doctype_word)))

RECURSIVE RemoveAllCI(_, _)
\* s.replace(/pat/gi, '')
RemoveAllCI(s, pat) ==
    LET i == IndexOfCI(s, pat, 1)
    IN IF i = 0 THEN s
       ELSE SubSeq(s, 1, i - 1) \o RemoveAllCI(SubSeq(s, i + Len(pat), Len(s)), pat)

\* String.prototype.startsWith
StartsWith(s, pat) == Len(pat) <= Len(s) /\ SubSeq(s, 1, Len(pat)) = pat

\* step 1 of extractHTML: the inside of the first markdown fence, if any
Unfenced(text) ==
    LET f == IndexOfCI(text, Pat.fence, 1)
        lang == IF MatchesAtCI(text, Pat.html, f + 3) THEN f + 3 + Len(Pat.html) ELSE f + 3
        start == SkipSpace(text, lang)
        close == IF f = 0 THEN 0 ELSE IndexOfCI(text, Pat.fence, start)
    IN IF close # 0 THEN Trim(SubSeq(text, start, close - 1)) ELSE text

extractHTML(raw) ==
    LET text == Unfenced(raw)
        doctype == LeastOr0({i \in 1..Len(text) : DoctypeAt(text, i)})
        open == IndexOfCI(text, Pat.html_open, 1)
        close == IF open = 0 THEN 0
                 ELSE LastIndexOfCI(text, Pat.html_close, open + Len(Pat.html_open))
        cleaned == Trim(RemoveAllCI(RemoveAllCI(text, Pat.fence \o Pat.html), Pat.fence))
    IN IF doctype # 0 THEN Trim(SubSeq(text, doctype, Len(text)))
       ELSE IF close # 0
            THEN Pat.doctype \o <<"\n">>
                 \o Trim(SubSeq(text, open, close + Len(Pat.html_close) - 1))
       ELSE IF ~StartsWith(ToLowerCase(cleaned), ToLowerCase(Pat.doctype))
            THEN Pat.doctype \o <<"\n">> \o cleaned
       ELSE cleaned

isValidHTML(html) ==
    /\ Len(html) > 200
    /\ IndexOfCI(html, Pat.html_open, 1) # 0
    /\ IndexOfCI(html, Pat.html_close, 1) # 0
    /\ IndexOfCI(html, Pat.body_open, 1) # 0

----
\* Pipeline.js: the contact helpers.

\* the answers that stand for "no contact": shared, for email, for phone
NoContactWords ==
    [none |-> <<"n", "o", "n", "e">>,
     na |-> <<"n", "/", "a">>,
     unknown |-> <<"u", "n", "k", "n", "o", "w", "n">>,
     no_email_found |-> <<"n", "o", " ", "e", "m", "a", "i", "l", " ", "f", "o", "u", "n", "d">>,
     no_phone_found |-> <<"n", "o", " ", "p", "h", "o", "n", "e", " ", "f", "o", "u", "n", "d">>]

\* a variant without the test for '@'
isValidEmail_NotNoContact(email) ==
    /\ Truthy(email)
    /\ Trim(ToLowerCase(email)) \notin {NoContactWords.no_email_found, NoContactWords.none,
                                         NoContactWords.na, NoContactWords.unknown}

isValidEmail(email) ==
    IF ~Truthy(email) THEN FALSE
    ELSE LET lower == Trim(ToLowerCase(email))
         IN IF lower \in {NoContactWords.no_email_found, NoContactWords.none, NoContactWords.na, NoContactWords.unknown} THEN FALSE
            ELSE Contains(lower, "@")

\* a variant that is content with the 7 digits of a local number
isValidPhone_Local(phone) == Truthy(phone) /\ Len(Filter(phone, DigitChars)) >= 7

isValidPhone(phone) ==
    IF ~Truthy(phone) THEN FALSE
    ELSE LET lower == Trim(ToLowerCase(phone))
         IN IF lower \in {NoContactWords.no_phone_found, NoContactWords.none, NoContactWords.na, NoContactWords.unknown} THEN FALSE
            ELSE Len(Filter(phone, DigitChars)) >= 10

\* a variant that adds no country code
normalizePhone_Bare(phone) == <<"+">> \o Filter(phone, DigitChars)

normalizePhone(phone) ==
    LET digits == Filter(phone, DigitChars)
    IN <<"+">> \o (IF Len(digits) = 10 THEN <<"1">> \o digits ELSE digits)

----
\* The model's output: what a provider can answer to the research prompt and
\* to the build prompt.

T_email ==
    <<"<", "N", "A", "M", "E", ">", " ", "A", "l", "'", "s", " ", "<", "/", "N", "A", "M", "E", ">", "<", "N", "I", "C", "H", "E", ">", "h", "v", "a", "c", "<", "/", "N", "I", "C", "H", "E", ">">>
    \o <<"<", "S", "L", "U", "G", ">", "a", "l", "s", "<", "/", "S", "L", "U", "G", ">", "<", "A", "R", "E", "A", ">", "R", "o", "m", "e", "<", "/", "A", "R", "E", "A", ">", "<", "E", "M", "A", "I", "L", ">", "a", "@", "b", ".", "c", "o", "<", "/", "E", "M", "A", "I", "L", ">">>
    \o <<"<", "P", "H", "O", "N", "E", ">", "N", "o", " ", "p", "h", "o", "n", "e", " ", "f", "o", "u", "n", "d", "<", "/", "P", "H", "O", "N", "E", ">", "<", "D", "R", "A", "F", "T", ">", "H", "i", " ", "[", "L", "I", "V", "E", "_", "D", "E", "M", "O", "_", "U", "R", "L", "]", "<", "/", "D", "R", "A", "F", "T", ">">>

T_sms ==
    <<"<", "N", "A", "M", "E", ">", "B", "o", " ", "C", "o", "<", "/", "N", "A", "M", "E", ">", "<", "N", "I", "C", "H", "E", ">", "r", "o", "o", "f", "<", "/", "N", "I", "C", "H", "E", ">", "<", "A", "R", "E", "A", ">", "O", "s", "l", "o", "<", "/", "A", "R", "E", "A", ">">>
    \o <<"<", "E", "M", "A", "I", "L", ">", "N", "o", " ", "e", "m", "a", "i", "l", " ", "f", "o", "u", "n", "d", "<", "/", "E", "M", "A", "I", "L", ">">>
    \o <<"<", "P", "H", "O", "N", "E", ">", "(", "5", "5", "5", ")", " ", "1", "2", "3", "-", "4", "5", "6", "7", "<", "/", "P", "H", "O", "N", "E", ">", "<", "D", "R", "A", "F", "T", ">", "H", "i", "<", "/", "D", "R", "A", "F", "T", ">">>

T_nocontact ==
    <<"<", "N", "A", "M", "E", ">", "C", "y", "<", "/", "N", "A", "M", "E", ">", "<", "N", "I", "C", "H", "E", ">", "s", "p", "a", "<", "/", "N", "I", "C", "H", "E", ">", "<", "A", "R", "E", "A", ">", "B", "o", "n", "n", "<", "/", "A", "R", "E", "A", ">">>
    \o <<"<", "E", "M", "A", "I", "L", ">", "N", "o", "n", "e", "<", "/", "E", "M", "A", "I", "L", ">", "<", "P", "H", "O", "N", "E", ">", "N", "/", "A", "<", "/", "P", "H", "O", "N", "E", ">", "<", "D", "R", "A", "F", "T", ">", "H", "i", "<", "/", "D", "R", "A", "F", "T", ">">>

T_missing == <<"<", "N", "A", "M", "E", ">", "D", "i", "<", "/", "N", "A", "M", "E", ">", "<", "E", "M", "A", "I", "L", ">", "d", "@", "e", "<", "/", "E", "M", "A", "I", "L", ">">>

ResearchTexts == {T_email, T_sms, T_nocontact, T_missing}

\* the length of the filler of a generated page
PageFiller == 180

H_ok ==
    <<"<", "!", "D", "O", "C", "T", "Y", "P", "E", " ", "h", "t", "m", "l", ">", "<", "h", "t", "m", "l", ">", "<", "b", "o", "d", "y", ">">> \o BodyOfLen(PageFiller) \o <<"<", "/", "b", "o", "d", "y", ">", "<", "/", "h", "t", "m", "l", ">">>

H_fenced ==
    <<"o", "k", ":", "\n">> \o Pat.fence \o <<"h", "t", "m", "l", "\n", "<", "h", "t", "m", "l", ">", "<", "b", "o", "d", "y", ">">> \o BodyOfLen(PageFiller + 1)
    \o <<"<", "/", "b", "o", "d", "y", ">", "<", "/", "h", "t", "m", "l", ">", "\n">> \o Pat.fence

H_bad == <<"<", "h", "t", "m", "l", ">", "<", "b", "o", "d", "y", ">", "o", "o", "p", "s">>

BuildTexts == {H_ok, H_fenced, H_bad}

----
\* Providers.js: the provider adapters.

MAX_RETRIES == 3

BASE_DELAY_MS == 1000

\* body.substring(0, 300) of a provider's error body
LLM_ERR_EXCERPT == 300

S_openai == <<"o", "p", "e", "n", "a", "i">>
S_anthropic == <<"a", "n", "t", "h", "r", "o", "p", "i", "c">>
S_gemini == <<"g", "e", "m", "i", "n", "i">>
S_xai == <<"x", "a", "i">>

\* the answers a provider can give with status 200 (the model's output text)
AnswerTexts == ResearchTexts \cup BuildTexts

\* what one UrlFetchApp.fetch to a provider can do: throw (network failure),
\* or answer with a status and a body; a 200 body parses as JSON or not, and
\* holds the answer text at the provider's path or not (text = '')
LLMResponse(throws, code, raw, parses, text) ==
    [throws |-> throws, code |-> code, raw |-> raw, parses |-> parses, text |-> text]

\* the requests of one invocation, by kind (append: the rows it appended)
NoRequests == [llm |-> 0, get |-> 0, put |-> 0, append |-> 0, mail |-> 0, sms |-> 0]

Requested(p, kind) == [net EXCEPT ![p][kind] = @ + 1]

LLMResponses ==
    {LLMResponse(TRUE, 0, Empty, FALSE, Empty)}
    \cup {LLMResponse(FALSE, c, b, FALSE, Empty) :
          c \in {429, 500}, b \in {BodyOfLen(0), BodyOfLen(LLM_ERR_EXCERPT + 1)}}
    \cup {LLMResponse(FALSE, 200, Empty, FALSE, Empty)}
    \cup {LLMResponse(FALSE, 200, Empty, TRUE, t) : t \in {Empty} \cup AnswerTexts}

\* the answers met inside a pipeline run, by the run's position: a request
\* that throws, an error status, and the texts written for the prompt sent
\* a provider that never answers: the fetch neither returns nor throws
LLMResponsesFor_None(pc) == {}

LLMResponsesFor(pc) ==
    IF pc = "idle" THEN LLMResponses
    ELSE {LLMResponse(TRUE, 0, Empty, FALSE, Empty),
          LLMResponse(FALSE, 500, BodyOfLen(2), FALSE, Empty)}
         \cup {LLMResponse(FALSE, 200, Empty, TRUE, t) :
                t \in IF pc = "research_wait" THEN ResearchTexts ELSE BuildTexts}

\* e.toString() of what UrlFetchApp.fetch throws, and of JSON.parse's SyntaxError
FetchException == <<"Exception: request failed">>

SyntaxError == <<"SyntaxError: Unexpected token">>

\* the outcome of one call of the function withRetry is given
Returned(result) == [threw |-> FALSE, exc |-> Empty, result |-> result]

Thrown(exc) == [threw |-> TRUE, exc |-> exc, result |-> [text |-> Empty, error |-> Null]]

\* the body the four adapters share: fetch, status check, JSON.parse, answer text
AdapterFn(name, r) ==
    IF r.throws THEN Thrown(FetchException)
    ELSE IF r.code # 200 THEN
        Returned([text |-> Empty,
                  error |-> <<name, " API returned ">> \o NumToString(r.code) \o <<": ">>
                            \o Substring0(r.raw, LLM_ERR_EXCERPT)])
    ELSE IF ~r.parses THEN Thrown(SyntaxError)
    ELSE IF ~Truthy(r.text) THEN
        Returned([text |-> Empty, error |-> <<name, " returned empty content.">>])
    ELSE Returned([text |-> r.text, error |-> Null])

callOpenAIFn(r) == AdapterFn("OpenAI", r)

callAnthropicFn(r) == AdapterFn("Anthropic", r)

callGeminiFn(r) == AdapterFn("Gemini", r)

callXAIFn(r) == AdapterFn("xAI", r)

\* the function callLLM hands to withRetry for a provider
ProviderFn(provider, r) ==
    CASE provider = S_openai -> callOpenAIFn(r)
      [] provider = S_anthropic -> callAnthropicFn(r)
      [] provider = S_gemini -> callGeminiFn(r)
      [] provider = S_xai -> callXAIFn(r)

----
\* Providers.js: callLLM and withRetry.

NoResult == [text |-> Empty, error |-> Null]

LLMIdle ==
    [pc |-> "idle", provider |-> Empty, attempt |-> 0, lastError |-> Empty,
     result |-> NoResult, raised |-> FALSE, sleeps |-> <<>>, log |-> <<>>]

\* callLLM: the switch on config.provider; a supported provider enters
\* withRetry (lastError = '', attempt = 1), any other returns at once
callLLM(provider) ==
    IF provider \in {S_openai, S_anthropic, S_gemini, S_xai}
    THEN [LLMIdle EXCEPT !.pc = "attempt", !.provider = provider, !.attempt = 1]
    ELSE [LLMIdle EXCEPT !.pc = "done", !.provider = provider,
                         !.result = [text |-> Empty,
                                     error |-> <<"Unknown provider: ">> \o provider]]

\* a variant that waits the same time before every retry
BackoffDelay_Fixed(attempt) == BASE_DELAY_MS

\* BASE_DELAY_MS * Math.pow(2, attempt - 1)
BackoffDelay(attempt) == BASE_DELAY_MS * Pow2(attempt - 1)

\* a variant that retries whatever fn() returned
ShouldRetry_Always(result, attempt) == attempt < MAX_RETRIES

\* the test that sends the loop to its next iteration after fn() returned
ShouldRetry(result, attempt) == Truthy(result.error) /\ attempt < MAX_RETRIES

\* the try block of one iteration, fn() having returned result: the
\* activation goes on (pc stays "attempt") or returns result
TryBlock(a, result) ==
    IF ShouldRetry(result, a.attempt)
    THEN [a EXCEPT !.lastError = result.error,
                   !.sleeps = Append(@, BackoffDelay(a.attempt))]
    ELSE [a EXCEPT !.pc = "done", !.result = result]

\* a variant without the catch: the exception leaves withRetry
CatchBlock_Rethrow(a, exc) == [a EXCEPT !.pc = "done", !.raised = TRUE]

\* the catch block of one iteration, fn() having thrown e (exc = e.toString())
CatchBlock(a, exc) ==
    [a EXCEPT !.lastError = exc,
              !.sleeps = IF a.attempt < MAX_RETRIES
                         THEN Append(@, BackoffDelay(a.attempt)) ELSE @]

\* a variant whose loop allows one more iteration
LoopContinues_OneMore(attempt) == attempt <= MAX_RETRIES + 1

\* the loop's condition, tested on the incremented attempt
LoopContinues(attempt) == attempt <= MAX_RETRIES

\* attempt++ and the loop's condition; the return after the loop
LoopNext(a) ==
    IF a.pc = "done" THEN a
    ELSE IF LoopContinues(a.attempt + 1) THEN [a EXCEPT !.attempt = @ + 1]
    ELSE [a EXCEPT !.attempt = @ + 1,
                   !.pc = "done",
                   !.result = [text |-> Empty,
                               error |-> <<"All retries failed. Last error: ">>
                                         \o a.lastError]]

\* one iteration of withRetry's loop on the outcome of fn(), the loop's exit
\* and the return that follows it included
withRetry(a, out) ==
    LoopNext(IF out.threw THEN CatchBlock(a, out.exc) ELSE TryBlock(a, out.result))

\* one attempt of the activation of p: the provider answers, fn() runs on the
\* answer, withRetry decides; log records what fn() did, attempt by attempt
LLMAttempt(p) ==
    /\ llm[p].pc = "attempt"
    /\ \E r \in LLMResponsesFor(run[p].pc) :
        LET out == ProviderFn(llm[p].provider, r)
        IN llm' = [llm EXCEPT ![p] = [withRetry(@, out) EXCEPT !.log = Append(llm[p].log, out)]]
    /\ net' = Requested(p, "llm")
    /\ UNCHANGED <<gh, store, pubLog, sheet, mail, sms, run, calls, runs, batch, unit>>

----
\* Config.js: the static configuration.

CONFIG_ORG == "cybercraftsolutionsllc"

CONFIG_REPO == "website-forge"

CONFIG_BRANCH == "main"

----
\* Config.js: getConfig.

\* JavaScript's a || b on strings
OrElse(a, b) == IF Truthy(a) THEN a ELSE b

SUPPORTED_PROVIDERS == {S_openai, S_anthropic, S_gemini, S_xai}

DEFAULT_MODELS(provider) ==
    CASE provider = S_openai -> <<"gpt-4o">>
      [] provider = S_anthropic -> <<"claude-sonnet-4-20250514">>
      [] provider = S_gemini -> <<"gemini-2.5-flash">>
      [] provider = S_xai -> <<"grok-3-mini-fast">>
      [] OTHER -> Null

DEFAULT_SHEET_ID == <<"1rP0SS64lhjP3ui3eV93e0PHnrhRb0OfHyj3IMZCKOp4">>

NoProps ==
    [LLM_PROVIDER |-> Null, LLM_API_KEY |-> Null, GITHUB_PAT |-> Null, SHEET_ID |-> Null,
     LLM_MODEL |-> Null, AUTO_SEND |-> Null, AUTO_SEND_EMAIL |-> Null,
     PAYMENT_LINK |-> Null, SENDER_NAME |-> Null, TWILIO_ACCOUNT_SID |-> Null,
     TWILIO_AUTH_TOKEN |-> Null, TWILIO_PHONE |-> Null]

\* the config object; isNull says that getConfig returned null
NullConfig ==
    [isNull |-> TRUE, provider |-> Empty, apiKey |-> Null, model |-> Null,
     githubPat |-> Null, sheetId |-> Empty, org |-> CONFIG_ORG, repo |-> CONFIG_REPO,
     branch |-> CONFIG_BRANCH, autoSend |-> FALSE, paymentLink |-> Empty,
     senderName |-> Empty, twilioSid |-> Empty, twilioToken |-> Empty,
     twilioPhone |-> Empty, twilioEnabled |-> FALSE]

\* a variant that is content with one of the three Twilio properties
TwilioEnabled_AnySet(twilioSid, twilioToken, twilioPhone) ==
    Truthy(twilioSid) \/ Truthy(twilioToken) \/ Truthy(twilioPhone)

\* !!(twilioSid && twilioToken && twilioPhone)
TwilioEnabled(twilioSid, twilioToken, twilioPhone) ==
    Truthy(twilioSid) /\ Truthy(twilioToken) /\ Truthy(twilioPhone)

getConfig(props) ==
    LET provider == Trim(ToLowerCase(OrElse(props.LLM_PROVIDER, Empty)))
        apiKey == props.LLM_API_KEY
        githubPat == props.GITHUB_PAT
        twilioSid == Trim(OrElse(props.TWILIO_ACCOUNT_SID, Empty))
        twilioToken == Trim(OrElse(props.TWILIO_AUTH_TOKEN, Empty))
        twilioPhone == Trim(OrElse(props.TWILIO_PHONE, Empty))
        errors == (IF ~Truthy(provider) \/ provider \notin SUPPORTED_PROVIDERS
                   THEN <<"LLM_PROVIDER">> ELSE <<>>)
                  \o (IF ~Truthy(apiKey) THEN <<"LLM_API_KEY">> ELSE <<>>)
                  \o (IF ~Truthy(githubPat) THEN <<"GITHUB_PAT">> ELSE <<>>)
    IN IF Len(errors) > 0 THEN NullConfig
       ELSE [isNull |-> FALSE,
             provider |-> provider,
             apiKey |-> apiKey,
             model |-> OrElse(props.LLM_MODEL, DEFAULT_MODELS(provider)),
             githubPat |-> githubPat,
             sheetId |-> OrElse(props.SHEET_ID, DEFAULT_SHEET_ID),
             org |-> CONFIG_ORG,
             repo |-> CONFIG_REPO,
             branch |-> CONFIG_BRANCH,
             autoSend |-> Trim(ToLowerCase(OrElse(OrElse(props.AUTO_SEND,
                                                          props.AUTO_SEND_EMAIL), Empty)))
                          = <<"t", "r", "u", "e">>,
             paymentLink |-> OrElse(props.PAYMENT_LINK, Empty),
             senderName |-> OrElse(props.SENDER_NAME, <<"Cyber Craft Solutions">>),
             twilioSid |-> twilioSid,
             twilioToken |-> twilioToken,
             twilioPhone |-> twilioPhone,
             twilioEnabled |-> TwilioEnabled(twilioSid, twilioToken, twilioPhone)]

\* the Script Properties a run can find
ReviewProps ==
    [NoProps EXCEPT !.LLM_PROVIDER = S_openai, !.LLM_API_KEY = <<"k">>, !.GITHUB_PAT = <<"t">>]

SendProps ==
    [ReviewProps EXCEPT !.LLM_PROVIDER = <<" ", "G", "e", "m", "i", "n", "i", " ">>, !.AUTO_SEND = <<"T", "R", "U", "E", " ">>]

TwilioProps ==
    [SendProps EXCEPT !.TWILIO_ACCOUNT_SID = <<"A", "C", "1">>,
                      !.TWILIO_AUTH_TOKEN = <<"t", "k">>,
                      !.TWILIO_PHONE = <<"+", "1", "8", "0", "0", "5", "5", "5", "1", "2", "3", "4">>,
                      !.PAYMENT_LINK = <<"https://pay">>]

BrokenProps == [ReviewProps EXCEPT !.GITHUB_PAT = Null]

RunProps == {ReviewProps, SendProps, TwilioProps, BrokenProps}

----
\* The GitHub repository behind the Contents API: a set of files, each with
\* a path, a content and the blob sha of that content.

\* errBody.substring(0, 200) of a GitHub error body
GH_ERR_EXCERPT == 200

\* Utilities.base64Encode(html, UTF_8) and the repository's decoding of it
Base64Encode(s) == <<"base64(">> \o s \o <<")">>

Base64Decode(s) == SubSeq(s, 2, Len(s) - 1)

\* git's blob sha: a function of the content
BlobSha(content) == <<"sha:">> \o content

FilesAt(files, path) == {f \in files : f.path = path}

\* GET /repos/{org}/{repo}/contents/{path}: 200 with the file's sha, or 404
StoreGet(files, path) ==
    IF FilesAt(files, path) = {}
    THEN [code |-> 404, sha |-> Null]
    ELSE [code |-> 200, sha |-> (CHOOSE f \in FilesAt(files, path) : TRUE).sha]

\* a store that takes every PUT, whatever sha it carries: the last writer wins
StorePut_LastWriterWins(files, path, payload) ==
    LET old == FilesAt(files, path)
        new == [path |-> path, content |-> Base64Decode(payload.content),
                sha |-> BlobSha(Base64Decode(payload.content))]
    IN [code |-> IF old = {} THEN 201 ELSE 200, files |-> (files \ old) \cup {new}]

\* PUT /repos/{org}/{repo}/contents/{path}: creates the file when the path is
\* free and no sha is given (201), replaces it when the sha given is the
\* file's (200); a missing sha for a file that exists, or a sha for a file
\* that does not, is 422, and a stale sha is 409
StorePut(files, path, payload) ==
    LET old == FilesAt(files, path)
        new == [path |-> path, content |-> Base64Decode(payload.content),
                sha |-> BlobSha(Base64Decode(payload.content))]
    IN IF old = {}
       THEN IF payload.sha = Null
            THEN [code |-> 201, files |-> files \cup {new}]
            ELSE [code |-> 422, files |-> files]
       ELSE IF payload.sha = Null
            THEN [code |-> 422, files |-> files]
            ELSE IF \E f \in old : f.sha = payload.sha
                 THEN [code |-> 200, files |-> (files \ old) \cup {new}]
                 ELSE [code |-> 409, files |-> files]

GHErrBodies == {BodyOfLen(2), BodyOfLen(GH_ERR_EXCERPT + 1)}

\* what the GET can do: "serve" (the repository answers), "throw" (the fetch
\* throws), "status" (another status, with a body), "garbage" (200 with a
\* body that is not JSON), "listing" (200 with JSON that holds no sha)
GetResponses ==
    {[kind |-> k, code |-> 0, body |-> Empty] : k \in {"serve", "throw", "garbage", "listing"}}
    \cup {[kind |-> "status", code |-> c, body |-> b] : c \in {403, 500}, b \in GHErrBodies}

\* what the PUT can do: "serve", "throw", or "status": the request does not
\* reach the repository and another status comes back
PutResponses ==
    {[kind |-> k, code |-> 0, body |-> Empty] : k \in {"serve", "throw"}}
    \cup {[kind |-> "status", code |-> c, body |-> b] : c \in {202, 500}, b \in GHErrBodies}

----
\* GitHub.js: deployToGitHubPages.

NoDeploy == [success |-> FALSE, liveUrl |-> Empty, error |-> Null]

NoPayload == [message |-> Empty, content |-> Empty, branch |-> "", sha |-> Null]

GHIdle ==
    [pc |-> "idle", slug |-> Empty, html |-> Empty, sha |-> Null,
     payload |-> NoPayload, result |-> NoDeploy, raised |-> FALSE,
     gets |-> 0, puts |-> <<>>, getCode |-> 0, putCode |-> 0, body |-> Empty,
     fault |-> FALSE, threw |-> FALSE, before |-> {}]

\* 'demos/' + slug + '/index.html'
FilePath(slug) == <<"demos/">> \o slug \o <<"/index.html">>

\* 'https://' + org + '.github.io/' + repo + '/demos/' + slug + '/'
LiveUrl(slug) ==
    <<"https://", CONFIG_ORG, ".github.io/", CONFIG_REPO, "/demos/">> \o slug \o <<"/">>

\* a variant without the catch: the exception leaves deployToGitHubPages
DeployCaught_Rethrow(a, exc) == [a EXCEPT !.pc = "done", !.raised = TRUE]

\* the catch block of deployToGitHubPages
DeployCaught(a, exc) ==
    [a EXCEPT !.pc = "done",
              !.result = [success |-> FALSE, liveUrl |-> Empty,
                          error |-> <<"GitHub deploy threw: ">> \o exc]]

\* a variant that goes to step 2 at once, as for a file that does not exist
deployToGitHubPages_Unchecked(slug, html) ==
    [GHIdle EXCEPT !.pc = "put", !.slug = slug, !.html = html,
                   !.payload = [message |-> <<"Add demo for ">> \o slug,
                                content |-> Base64Encode(html),
                                branch |-> CONFIG_BRANCH,
                                sha |-> Null]]

\* entry of deployToGitHubPages: filePath and apiUrl are computed, sha = null
deployToGitHubPages(slug, html) ==
    [GHIdle EXCEPT !.pc = "get", !.slug = slug, !.html = html]

\* a variant of step 1 that never attaches the sha it read
deployOnGet_Blind(a, r) ==
    [a EXCEPT !.pc = "put",
              !.payload = [message |-> <<"Add demo for ">> \o a.slug,
                           content |-> Base64Encode(a.html),
                           branch |-> CONFIG_BRANCH,
                           sha |-> Null]]

\* step 1 after the GET's answer r (status r.code, body r.body, of which
\* r.parses and r.sha say what JSON.parse(...).sha gives), and the payload of
\* step 2
deployOnGet(a, r) ==
    IF r.throws THEN DeployCaught(a, FetchException)
    ELSE IF r.code = 200 /\ ~r.parses THEN DeployCaught(a, SyntaxError)
    ELSE IF r.code # 200 /\ r.code # 404 THEN
        [a EXCEPT !.pc = "done",
                  !.result = [success |-> FALSE, liveUrl |-> Empty,
                              error |-> <<"GitHub GET failed (">> \o NumToString(r.code)
                                        \o <<"): ">> \o Substring0(r.body, GH_ERR_EXCERPT)]]
    ELSE LET sha == IF r.code = 200 THEN r.sha ELSE Null
             payload == [message |-> <<"Add demo for ">> \o a.slug,
                         content |-> Base64Encode(a.html),
                         branch |-> CONFIG_BRANCH,
                         sha |-> Null]
         IN [a EXCEPT !.pc = "put",
                      !.sha = sha,
                      !.payload = IF Truthy(sha)
                                  THEN [payload EXCEPT !.sha = sha,
                                            !.message = <<"Update demo for ">> \o a.slug]
                                  ELSE payload]

\* a variant of step 2 that takes every status for a success
deployOnPut_Lenient(a, r) ==
    [a EXCEPT !.pc = "done",
              !.result = [success |-> TRUE,
                          liveUrl |-> <<"https://", CONFIG_ORG, ".github.io/", CONFIG_REPO,
                                        "/demos/">> \o a.slug \o <<"/">>,
                          error |-> Null]]

\* step 2 after the PUT's answer r, and the result
deployOnPut(a, r) ==
    IF r.throws THEN DeployCaught(a, FetchException)
    ELSE IF r.code # 200 /\ r.code # 201 THEN
        [a EXCEPT !.pc = "done",
                  !.result = [success |-> FALSE, liveUrl |-> Empty,
                              error |-> <<"GitHub PUT failed (">> \o NumToString(r.code)
                                        \o <<"): ">> \o Substring0(r.body, GH_ERR_EXCERPT)]]
    ELSE [a EXCEPT !.pc = "done",
                   !.result = [success |-> TRUE, liveUrl |-> LiveUrl(a.slug), error |-> Null]]

\* the entry of pubLog for the finished activation a
PubEntry(a, files) ==
    [slug |-> a.slug, html |-> a.html, result |-> a.result, raised |-> a.raised,
     gets |-> a.gets, puts |-> a.puts, getCode |-> a.getCode, putCode |-> a.putCode,
     body |-> a.body, fault |-> a.fault, threw |-> a.threw, before |-> a.before,
     after |-> FilesAt(files, FilePath(a.slug)), total |-> Cardinality(files)]

PubLogged(a, files) == IF a.pc = "done" THEN Append(pubLog, PubEntry(a, files)) ELSE pubLog

\* the answer the script sees to the GET, given what the request did
GetAnswer(e, path) ==
    LET served == StoreGet(store, path)
    IN CASE e.kind = "throw" -> [throws |-> TRUE, code |-> 0, body |-> Empty, parses |-> FALSE, sha |-> Null]
         [] e.kind = "status" -> [throws |-> FALSE, code |-> e.code, body |-> e.body, parses |-> FALSE, sha |-> Null]
         [] e.kind = "garbage" -> [throws |-> FALSE, code |-> 200, body |-> Empty, parses |-> FALSE, sha |-> Null]
         [] e.kind = "listing" -> [throws |-> FALSE, code |-> 200, body |-> Empty, parses |-> TRUE, sha |-> Null]
         [] e.kind = "serve" -> [throws |-> FALSE, code |-> served.code, body |-> Empty,
                                 parses |-> TRUE, sha |-> served.sha]

\* the GET of the activation of p
GitHubGet(p) ==
    /\ gh[p].pc = "get"
    /\ \E e \in GetResponses :
        LET r == GetAnswer(e, FilePath(gh[p].slug))
            a == [deployOnGet(gh[p], r) EXCEPT !.gets = @ + 1,
                                               !.getCode = r.code,
                                               !.body = r.body,
                                               !.fault = e.kind # "serve",
                                               !.threw = r.throws \/ (r.code = 200 /\ ~r.parses)]
        IN /\ gh' = [gh EXCEPT ![p] = a]
           /\ pubLog' = PubLogged(a, store)
    /\ net' = Requested(p, "get")
    /\ UNCHANGED <<llm, store, sheet, mail, sms, run, calls, runs, batch, unit>>

\* the PUT of the activation of p
GitHubPut(p) ==
    /\ gh[p].pc = "put"
    /\ \E e \in PutResponses :
        LET served == StorePut(store, FilePath(gh[p].slug), gh[p].payload)
            files == IF e.kind = "serve" THEN served.files ELSE store
            r == CASE e.kind = "throw" -> [throws |-> TRUE, code |-> 0, body |-> Empty]
                   [] e.kind = "status" -> [throws |-> FALSE, code |-> e.code, body |-> e.body]
                   [] e.kind = "serve" -> [throws |-> FALSE, code |-> served.code,
                                           body |-> BodyOfLen(2)]
            a == [deployOnPut(gh[p], r) EXCEPT !.puts = Append(@, gh[p].payload),
                                               !.putCode = r.code,
                                               !.body = r.body,
                                               !.fault = @ \/ e.kind # "serve",
                                               !.threw = r.throws,
                                               !.before = FilesAt(store, FilePath(gh[p].slug))]
        IN /\ gh' = [gh EXCEPT ![p] = a]
           /\ store' = files
           /\ pubLog' = PubLogged(a, files)
    /\ net' = Requested(p, "put")
    /\ UNCHANGED <<llm, sheet, mail, sms, run, calls, runs, batch, unit>>

----
\* Pipeline.js: the phases.

S_email == <<"email">>

S_sms == <<"sms">>

NoBiz ==
    [business_name |-> Empty, niche |-> Empty, slug |-> Empty, area |-> Empty,
     current_website_url |-> Empty, target_email |-> Empty, target_phone |-> Empty,
     research_notes_summary |-> Empty, suggested_domain |-> Empty, domain_cost |-> Empty,
     services |-> Empty, email_draft |-> Empty, channel |-> Null]

\* a result of phaseResearch; hasData says that data is not null
NoResearch == [hasData |-> FALSE, data |-> NoBiz, error |-> Null]

\* the fields of extractBusinessData's object, channel not set yet
Biz(data) == [f \in DOMAIN NoBiz |-> IF f = "channel" THEN Null ELSE data[f]]

RECURSIVE Join(_, _)
\* Array.prototype.join
Join(list, sep) ==
    IF Len(list) = 0 THEN Empty
    ELSE IF Len(list) = 1 THEN <<list[1]>>
    ELSE <<list[1]>> \o sep \o Join(Tail(list), sep)

\* a variant of the contact gate that lets every validated answer through
ContactGate_Open(hasEmail, hasPhone) == TRUE

\* the contact gate: an email or a phone that can be used
ContactGate(hasEmail, hasPhone) == hasEmail \/ hasPhone

\* a variant that prefers the phone
ChannelOf_PhoneFirst(hasEmail, hasPhone) == IF hasPhone THEN S_sms ELSE S_email

\* data.channel
ChannelOf(hasEmail, hasPhone) == IF hasEmail THEN S_email ELSE S_sms

\* phaseResearch after callLLM returned result
phaseResearch(result) ==
    LET data == Biz(extractBusinessData(result.text))
        validation == validateBusinessData(data)
        hasEmail == isValidEmail(data.target_email)
        hasPhone == isValidPhone(data.target_phone)
    IN IF Truthy(result.error)
       THEN [hasData |-> FALSE, data |-> NoBiz,
             error |-> <<"Research API failed: ">> \o result.error]
       ELSE IF ~validation.valid
       THEN [hasData |-> FALSE, data |-> NoBiz,
             error |-> <<"Could not extract required data. Missing: ">>
                       \o Join(validation.missing, <<", ">>)]
       ELSE IF ~ContactGate(hasEmail, hasPhone)
       THEN [hasData |-> FALSE, data |-> NoBiz,
             error |-> <<"No email or phone found for \"">> \o data.business_name
                       \o <<"\". Retrying...">>]
       ELSE [hasData |-> TRUE,
             data |-> [data EXCEPT !.channel = ChannelOf(hasEmail, hasPhone),
                                   !.slug = IF ~Truthy(@) THEN toSlug(data.business_name)
                                            ELSE @],
             error |-> Null]

NoBuild == [html |-> Empty, error |-> Null]

\* phaseBuild after callLLM returned result
phaseBuild(result) ==
    IF Truthy(result.error)
    THEN [html |-> Empty, error |-> <<"Build API failed: ">> \o result.error]
    ELSE IF ~isValidHTML(extractHTML(result.text))
    THEN [html |-> Empty, error |-> <<"Generated HTML failed validation. Try again.">>]
    ELSE [html |-> extractHTML(result.text), error |-> Null]

buildProfessionalEmail(config, biz, liveUrl) ==
    <<"<!DOCTYPE html>...<p>Hi ">> \o OrElse(biz.business_name, <<"there">>)
    \o <<" team,</p><p>I came across <strong>">> \o biz.business_name
    \o <<"</strong> while researching ">> \o OrElse(biz.niche, <<"local businesses">>)
    \o <<" in ">> \o OrElse(biz.area, <<"your area">>)
    \o <<", and I noticed ... free custom website demo ...<a href=\"">> \o liveUrl
    \o <<"\">View Your Free Demo</a>... one-time fee of $199 ...">>
    \o (IF Truthy(config.paymentLink)
        THEN <<"<tr><td><a href=\"">> \o config.paymentLink
             \o <<"\">Pay $199 &amp; Get Started</a></td></tr>">>
        ELSE Empty)
    \o <<"<div>Please note: ...</div><p>Looking forward to helping ">> \o biz.business_name
    \o <<" stand out online!</p><p>Best regards,</p><p>">> \o config.senderName
    \o <<"</p><p>Cyber Craft Solutions</p>...</html>">>

buildPlainTextMessage(config, biz, liveUrl) ==
    <<"Hi ">> \o OrElse(biz.business_name, <<"there">>) \o <<" team,", "\n", "\n">>
    \o <<"I came across ">> \o biz.business_name \o <<" while looking at ">>
    \o OrElse(biz.niche, <<"local businesses">>) \o <<" in ">>
    \o OrElse(biz.area, <<"your area">>)
    \o <<" and noticed your online presence could use an upgrade.", "\n">>
    \o <<"I built you a free website demo.", "\n", "\n", "View your demo: ">> \o liveUrl
    \o <<"\n", "\n", "The site is yours for a one-time $199 fee. ...", "\n", "\n">>
    \o (IF Truthy(config.paymentLink)
        THEN <<"Pay securely here: ">> \o config.paymentLink \o <<"\n", "\n">>
        ELSE Empty)
    \o <<"Note: We will reach out for additional info ...", "\n", "\n", "Best regards,", "\n">>
    \o config.senderName \o <<"\n", "Cyber Craft Solutions">>

buildSmsMessage(config, biz, liveUrl) ==
    <<"Hi! I noticed ">> \o biz.business_name
    \o <<" doesn't have a website yet, so I built you a free demo: ">> \o liveUrl
    \o <<" - It's yours for $199, one-time. Reply YES for details or STOP to opt out. - Cyber Craft Solutions">>

\* new Date().toISOString().split('T')[0] and new Date().toISOString()
Today == <<"(today)">>

Now == <<"(now)">>

NoLog ==
    [error |-> Null, liveUrl |-> Empty, emailHtml |-> Empty, plainText |-> Empty,
     smsText |-> Empty, rowNumber |-> 0]

\* the slug phaseLog deploys under
LogSlug(biz) == OrElse(biz.slug, toSlug(biz.business_name))

\* a variant whose fallback texts leave the address out
LogMessages_BareFallback(config, biz, liveUrl, renderThrows) ==
    IF renderThrows
    THEN [emailHtml |-> Empty, plainText |-> <<"Demo: ">>, smsText |-> <<"Demo: ">>]
    ELSE [emailHtml |-> buildProfessionalEmail(config, biz, liveUrl),
          plainText |-> buildPlainTextMessage(config, biz, liveUrl),
          smsText |-> buildSmsMessage(config, biz, liveUrl)]

\* the three messages of phaseLog; renderThrows says that a builder threw
LogMessages(config, biz, liveUrl, renderThrows) ==
    IF renderThrows
    THEN [emailHtml |-> Empty, plainText |-> <<"Demo: ">> \o liveUrl,
          smsText |-> <<"Demo: ">> \o liveUrl]
    ELSE [emailHtml |-> buildProfessionalEmail(config, biz, liveUrl),
          plainText |-> buildPlainTextMessage(config, biz, liveUrl),
          smsText |-> buildSmsMessage(config, biz, liveUrl)]

\* the row phaseLog appends
LogRow(config, biz, liveUrl, msgs) ==
    [Date_Run |-> Today,
     Area |-> OrElse(biz.area, Empty),
     Business_Name |-> OrElse(biz.business_name, Empty),
     Slug |-> LogSlug(biz),
     Repo_URL |-> <<"https://github.com/", config.org, "/", config.repo>>,
     Live_Pages_URL |-> liveUrl,
     Suggested_Domain |-> OrElse(biz.suggested_domain, Empty),
     Domain_Cost_Yearly |-> OrElse(biz.domain_cost, Empty),
     Target_Email |-> OrElse(biz.target_email, Empty),
     Target_Phone |-> OrElse(biz.target_phone, Empty),
     Drafted_Message |-> IF biz.channel = S_sms THEN msgs.smsText ELSE msgs.plainText,
     Channel |-> OrElse(biz.channel, S_email),
     Status |-> <<"Review Needed">>,
     Sent_Date |-> Empty]

\* phaseLog after deployToGitHubPages returned deploy: the result and the
\* rows of the sheet; appendThrows says that sheet.appendRow threw
phaseLog(config, biz, deploy, rows, renderThrows, appendThrows) ==
    LET msgs == LogMessages(config, biz, deploy.liveUrl, renderThrows)
    IN IF ~deploy.success
       THEN [log |-> [NoLog EXCEPT !.error = <<"GitHub deploy failed: ">> \o deploy.error],
             rows |-> rows, appended |-> FALSE]
       ELSE IF appendThrows
       THEN [log |-> [NoLog EXCEPT !.error = <<"Sheet write failed: ", "Exception: Service error">>],
             rows |-> rows, appended |-> FALSE]
       ELSE [log |-> [error |-> Null, liveUrl |-> deploy.liveUrl,
                      emailHtml |-> msgs.emailHtml, plainText |-> msgs.plainText,
                      smsText |-> msgs.smsText, rowNumber |-> Len(rows) + 2],
             rows |-> Append(rows, LogRow(config, biz, deploy.liveUrl, msgs)),
             appended |-> TRUE]

\* what a send can meet: GmailApp.sendEmail throws or not; the request to
\* Twilio throws, or is answered with a status and a body
SendOutcomes ==
    {[throws |-> t, code |-> c, body |-> BodyOfLen(2)] : t \in BOOLEAN, c \in {201, 400}}

\* sendEmailMessage: the result and the message handed to Gmail, if any
sendEmailMessage(targetEmail, subject, htmlBody, plainBody, senderName, env) ==
    IF env.throws
    THEN [success |-> FALSE, error |-> <<"Exception: Service invoked too many times">>,
          sent |-> <<>>, requests |-> 1]
    ELSE [success |-> TRUE, error |-> Null,
          sent |-> <<[to |-> targetEmail, subject |-> subject, plainBody |-> plainBody,
                      name |-> senderName, htmlBody |-> htmlBody]>>,
          requests |-> 1]

TwilioNotConfigured ==
    <<"Twilio not configured. Set TWILIO_ACCOUNT_SID, TWILIO_AUTH_TOKEN, and TWILIO_PHONE in Script Properties.">>

\* a variant that takes Twilio to be configured
TwilioReady_Assumed(config) == TRUE

\* sendSmsMessage's first test
TwilioReady(config) == config.twilioEnabled

\* sendSmsMessage: the result and the request Twilio accepted, if any
sendSmsMessage(targetPhone, body, config, env) ==
    IF ~TwilioReady(config)
    THEN [success |-> FALSE, error |-> TwilioNotConfigured, sent |-> <<>>, requests |-> 0]
    ELSE IF env.throws
    THEN [success |-> FALSE, error |-> FetchException, sent |-> <<>>, requests |-> 1]
    ELSE IF env.code >= 200 /\ env.code < 300
    THEN [success |-> TRUE, error |-> Null,
          sent |-> <<[To |-> normalizePhone(targetPhone), From |-> config.twilioPhone,
                      Body |-> body]>>,
          requests |-> 1]
    ELSE [success |-> FALSE,
          error |-> <<"Twilio returned ">> \o NumToString(env.code) \o <<": ">>
                    \o Substring0(env.body, 200),
          sent |-> <<>>, requests |-> 1]

NoOutreach == [sent |-> FALSE, error |-> Null]

\* a variant that leaves the row as it is
MarkSent_Nothing(rows, rowNumber) == rows

\* the row of the sheet at a row number, marked as sent
MarkSent(rows, rowNumber) ==
    [rows EXCEPT ![rowNumber - 1] = [@ EXCEPT !.Status = <<"Sent">>, !.Sent_Date = Now]]

\* a variant of the test of AUTO_SEND that never holds
ReviewOnly_Never(config) == FALSE

\* phaseOutreach's first test: AUTO_SEND is off
ReviewOnly(config) == ~config.autoSend

\* phaseOutreach: the result, the sheet, and what was sent by mail and by SMS
phaseOutreach(config, biz, logResult, rows, env) ==
    LET channel == OrElse(biz.channel, S_email)
        none == [success |-> FALSE, error |-> Null, sent |-> <<>>, requests |-> 0]
        byMail == channel = S_email /\ isValidEmail(biz.target_email)
        bySms == ~byMail /\ channel = S_sms /\ isValidPhone(biz.target_phone)
        result ==
            IF byMail
            THEN sendEmailMessage(biz.target_email,
                                  <<"I built ">> \o biz.business_name \o <<" a free website">>,
                                  logResult.emailHtml, logResult.plainText,
                                  config.senderName, env)
            ELSE IF bySms THEN sendSmsMessage(biz.target_phone, logResult.smsText, config, env)
            ELSE none
        quiet == [rows |-> rows, mail |-> <<>>, sms |-> <<>>, mailRequests |-> 0,
                  smsRequests |-> 0]
        tried == [quiet EXCEPT !.mail = IF byMail THEN result.sent ELSE <<>>,
                               !.sms = IF bySms THEN result.sent ELSE <<>>,
                               !.mailRequests = IF byMail THEN result.requests ELSE 0,
                               !.smsRequests = IF bySms THEN result.requests ELSE 0]
    IN IF ReviewOnly(config)
       THEN [out |-> [sent |-> FALSE, error |-> Null], eff |-> quiet]
       ELSE IF ~byMail /\ ~bySms
       THEN [out |-> [sent |-> FALSE,
                      error |-> <<"No valid contact for channel: ">> \o channel],
             eff |-> quiet]
       ELSE IF result.success
       THEN [out |-> [sent |-> TRUE, error |-> Null],
             eff |-> [tried EXCEPT !.rows = MarkSent(rows, logResult.rowNumber)]]
       ELSE [out |-> [sent |-> FALSE, error |-> result.error], eff |-> tried]

----
\* Pipeline.js: runWebsiteForgePipeline, one step per call it makes.

MAX_ATTEMPTS == 5

NoLeadsToast ==
    <<"No leads with contact info after ">> \o NumToString(MAX_ATTEMPTS)
    \o <<" tries. Try again later.">>

\* a variant of the loop's condition that allows one more attempt
AttemptsLeft_OneMore(attempt) == attempt <= MAX_ATTEMPTS + 1

\* the condition of the loop of phase 1
AttemptsLeft(attempt) == attempt <= MAX_ATTEMPTS

\* why an attempt of phase 1 ended without a lead
ResearchCause(result) ==
    IF Truthy(result.error) THEN "api"
    ELSE IF ~validateBusinessData(Biz(extractBusinessData(result.text))).valid THEN "extract"
    ELSE "contact"

\* phaseResearch and phaseBuild on each text the provider answers with,
\* computed once and looked up by the steps below
ResearchOfText ==
    [t \in ResearchTexts |->
        [research |-> phaseResearch([text |-> t, error |-> Null]),
         cause |-> ResearchCause([text |-> t, error |-> Null])]]

BuildOfText == [t \in BuildTexts |-> phaseBuild([text |-> t, error |-> Null])]

Researched(result) ==
    IF ~Truthy(result.error) /\ result.text \in ResearchTexts
    THEN ResearchOfText[result.text]
    ELSE [research |-> phaseResearch(result), cause |-> ResearchCause(result)]

Built(result) ==
    IF ~Truthy(result.error) /\ result.text \in BuildTexts THEN BuildOfText[result.text]
    ELSE phaseBuild(result)

\* a run: its position, its local variables, the last toast it showed, the
\* phases it has invoked in order, and the causes its attempts of phase 1 failed for
RunIdle ==
    [pc |-> "idle", config |-> NullConfig, attempt |-> 0, research |-> NoResearch,
     hasBiz |-> FALSE, biz |-> NoBiz, build |-> NoBuild, log |-> NoLog,
     outreach |-> NoOutreach, toast |-> Null, events |-> <<>>, causes |-> {},
     sleeps |-> 0, raised |-> FALSE]

Quiet(p) == llm[p].pc = "idle" /\ gh[p].pc = "idle" /\ run[p].pc = "idle"

contactInfo(biz) ==
    IF biz.channel = S_sms THEN <<"(phone) ">> \o biz.target_phone
    ELSE <<"(mail) ">> \o biz.target_email

\* runWebsiteForgePipeline up to its first phase, the Script Properties being
\* one of found
RunStartWith(p, found) ==
    /\ runs < MaxRuns
    /\ Quiet(p)
    /\ \E props \in found :
        LET config == getConfig(props)
        IN run' = [run EXCEPT ![p] =
                     IF config.isNull THEN [RunIdle EXCEPT !.pc = "done"]
                     ELSE [RunIdle EXCEPT !.pc = "research", !.config = config,
                                          !.attempt = 1]]
    /\ runs' = runs + 1
    /\ net' = [net EXCEPT ![p] = NoRequests]
    /\ UNCHANGED <<llm, gh, store, pubLog, sheet, mail, sms, calls, batch, unit>>

RunStart(p) == RunStartWith(p, RunProps)

\* the loop of phase 1 invokes phaseResearch, which calls the provider
ResearchCall(p) ==
    /\ run[p].pc = "research"
    /\ AttemptsLeft(run[p].attempt)
    /\ run' = [run EXCEPT ![p].pc = "research_wait",
                          ![p].events = Append(@, "research")]
    /\ llm' = [llm EXCEPT ![p] = callLLM(run[p].config.provider)]
    /\ UNCHANGED <<gh, store, pubLog, sheet, mail, sms, calls, runs, net, batch, unit>>

\* the rest of the loop's body, and what follows the loop when it ends
AfterResearch(r, research, cause) ==
    IF research.hasData
    THEN [r EXCEPT !.pc = "build", !.research = research, !.hasBiz = TRUE,
                   !.biz = research.data]
    ELSE LET s == [r EXCEPT !.research = research,
                            !.causes = @ \cup {cause},
                            !.sleeps = IF r.attempt < MAX_ATTEMPTS THEN @ + 1 ELSE @,
                            !.attempt = @ + 1]
         IN IF AttemptsLeft(s.attempt) THEN [s EXCEPT !.pc = "research"]
            ELSE [s EXCEPT !.pc = "done", !.toast = NoLeadsToast]

ResearchReturn(p) ==
    /\ run[p].pc = "research_wait"
    /\ llm[p].pc = "done"
    /\ run' = [run EXCEPT ![p] =
                 IF llm[p].raised THEN [@ EXCEPT !.pc = "done", !.raised = TRUE]
                 ELSE AfterResearch(@, Researched(llm[p].result).research,
                                    Researched(llm[p].result).cause)]
    /\ llm' = [llm EXCEPT ![p] = LLMIdle]
    /\ UNCHANGED <<gh, store, pubLog, sheet, mail, sms, calls, runs, net, batch, unit>>

BuildCall(p) ==
    /\ run[p].pc = "build"
    /\ run' = [run EXCEPT ![p].pc = "build_wait", ![p].events = Append(@, "build")]
    /\ llm' = [llm EXCEPT ![p] = callLLM(run[p].config.provider)]
    /\ UNCHANGED <<gh, store, pubLog, sheet, mail, sms, calls, runs, net, batch, unit>>

\* a variant that goes on to phase 3 whatever phaseBuild returned
AfterBuild_GoOn(r, build) == [r EXCEPT !.pc = "log", !.build = build]

AfterBuild(r, build) ==
    IF Truthy(build.error)
    THEN [r EXCEPT !.pc = "done", !.build = build, !.toast = build.error]
    ELSE [r EXCEPT !.pc = "log", !.build = build]

BuildReturn(p) ==
    /\ run[p].pc = "build_wait"
    /\ llm[p].pc = "done"
    /\ run' = [run EXCEPT ![p] =
                 IF llm[p].raised THEN [@ EXCEPT !.pc = "done", !.raised = TRUE]
                 ELSE AfterBuild(@, Built(llm[p].result))]
    /\ llm' = [llm EXCEPT ![p] = LLMIdle]
    /\ UNCHANGED <<gh, store, pubLog, sheet, mail, sms, calls, runs, net, batch, unit>>

\* ensureHeaders writes the header row where there is none
ensureHeaders(sh) == [sh EXCEPT !.headers = TRUE]

\* phaseLog up to its call of deployToGitHubPages
LogCall(p) ==
    /\ run[p].pc = "log"
    /\ run' = [run EXCEPT ![p].pc = "log_wait", ![p].events = Append(@, "log")]
    /\ sheet' = ensureHeaders(sheet)
    /\ gh' = [gh EXCEPT ![p] = deployToGitHubPages(LogSlug(run[p].biz), run[p].build.html)]
    /\ UNCHANGED <<llm, store, pubLog, mail, sms, calls, runs, net, batch, unit>>

AfterLog(r, log) ==
    IF Truthy(log.error) THEN [r EXCEPT !.pc = "done", !.log = log, !.toast = log.error]
    ELSE IF r.config.autoSend THEN [r EXCEPT !.pc = "outreach", !.log = log]
    ELSE [r EXCEPT !.pc = "done", !.log = log,
                   !.toast = <<"Done! ">> \o r.biz.business_name \o <<" (">>
                             \o contactInfo(r.biz) \o <<") - review in sheet">>]

\* phaseLog from the return of deployToGitHubPages on
LogReturn(p) ==
    /\ run[p].pc = "log_wait"
    /\ gh[p].pc = "done"
    /\ \E renderThrows \in BOOLEAN, appendThrows \in BOOLEAN :
        LET r == phaseLog(run[p].config, run[p].biz, gh[p].result, sheet.rows,
                          renderThrows, appendThrows)
        IN /\ run' = [run EXCEPT ![p] =
                        IF gh[p].raised THEN [@ EXCEPT !.pc = "done", !.raised = TRUE]
                        ELSE AfterLog(@, r.log)]
           /\ sheet' = IF gh[p].raised THEN sheet ELSE [sheet EXCEPT !.rows = r.rows]
           /\ net' = IF ~gh[p].raised /\ r.appended THEN Requested(p, "append") ELSE net
    /\ gh' = [gh EXCEPT ![p] = GHIdle]
    /\ UNCHANGED <<llm, store, pubLog, mail, sms, calls, runs, batch, unit>>

\* phaseLog in two steps, for runs that share the sheet: from the return of
\* deployToGitHubPages up to sheet.appendRow, and from sheet.getLastRow on

\* sheet.getLastRow(): the header row and the rows of data
getLastRow(rows) == Len(rows) + 1

LogAppend(p) ==
    /\ run[p].pc = "log_wait"
    /\ gh[p].pc = "done" /\ ~gh[p].raised
    /\ \E renderThrows \in BOOLEAN, appendThrows \in BOOLEAN :
        LET r == phaseLog(run[p].config, run[p].biz, gh[p].result, sheet.rows,
                          renderThrows, appendThrows)
        IN /\ run' = [run EXCEPT ![p] =
                        IF Truthy(r.log.error) THEN AfterLog(@, r.log)
                        ELSE [@ EXCEPT !.pc = "log_row",
                                       !.log = [r.log EXCEPT !.rowNumber = 0]]]
           /\ sheet' = [sheet EXCEPT !.rows = r.rows]
           /\ net' = IF r.appended THEN Requested(p, "append") ELSE net
    /\ gh' = [gh EXCEPT ![p] = GHIdle]
    /\ UNCHANGED <<llm, store, pubLog, mail, sms, calls, runs, batch, unit>>

LogLastRow(p) ==
    /\ run[p].pc = "log_row"
    /\ run' = [run EXCEPT ![p] =
                 AfterLog(@, [run[p].log EXCEPT !.rowNumber = getLastRow(sheet.rows)])]
    /\ UNCHANGED <<llm, gh, store, pubLog, sheet, mail, sms, calls, runs, net, batch, unit>>

\* a variant that shows no toast for a send that failed
AfterOutreach_Silent(r, outreach) ==
    [r EXCEPT !.pc = "done", !.outreach = outreach,
              !.toast = IF outreach.sent
                        THEN <<"Done! ">> \o r.biz.channel \o <<" sent to ">>
                             \o contactInfo(r.biz)
                        ELSE @]

AfterOutreach(r, outreach) ==
    [r EXCEPT !.pc = "done", !.outreach = outreach,
              !.toast = IF outreach.sent
                        THEN <<"Done! ">> \o r.biz.channel \o <<" sent to ">>
                             \o contactInfo(r.biz)
                        ELSE IF Truthy(outreach.error)
                        THEN <<"Deployed but send failed: ">> \o outreach.error
                        ELSE @]

Outreach(p) ==
    /\ run[p].pc = "outreach"
    /\ \E env \in SendOutcomes :
        \E r \in {phaseOutreach(run[p].config, run[p].biz, run[p].log, sheet.rows, env)} :
           /\ run' = [run EXCEPT ![p] =
                        AfterOutreach([@ EXCEPT !.events = Append(@, "outreach")], r.out)]
           /\ sheet' = [sheet EXCEPT !.rows = r.eff.rows]
           /\ mail' = mail \o r.eff.mail
           /\ sms' = sms \o r.eff.sms
           /\ net' = [net EXCEPT ![p].mail = @ + r.eff.mailRequests,
                                 ![p].sms = @ + r.eff.smsRequests]
    /\ UNCHANGED <<llm, gh, store, pubLog, calls, runs, batch, unit>>

RunReturn(p) ==
    /\ run[p].pc = "done"
    /\ run' = [run EXCEPT ![p] = RunIdle]
    /\ UNCHANGED <<llm, gh, store, pubLog, sheet, mail, sms, calls, runs, net, batch, unit>>

----
\* A function applied on its own.

NoUnit == [fn |-> "none", arg |-> <<>>, out |-> <<>>]

\* the fields of extractBusinessData's object, and the key of Labels of each
FieldNames ==
    <<"business_name", "niche", "slug", "area", "current_website_url", "target_email",
      "target_phone", "research_notes_summary", "suggested_domain", "domain_cost",
      "services", "email_draft">>

LabelKeys ==
    <<"name", "niche", "slug", "area", "url", "email", "phone", "notes", "domain", "cost",
      "services", "draft">>

NumFields == Len(FieldNames)

\* an answer of the model is described field by field: the form of the
\* field's markers, and its value.  Forms: "plain" <L>v</L>; "absent";
\* "padded" <L> + whitespace + v + whitespace + </L>; "nested" <L>v</b>v</L>;
\* "truncated" <L>v</(L without its last letter)>; "foreign" <L> + whitespace
\* + v + whitespace + </X>; "unclosed" <L>v, no closing marker of its own
WellFormed == {"plain", "absent", "padded", "nested"}

Lenient == {"truncated", "foreign"}

Forms == WellFormed \cup Lenient

DefaultVals ==
    <<(<<"A", "l", "'", "s">>), <<"h", "v", "a", "c">>, <<"a", "l", "s">>,
      <<"R", "o", "m", "e">>, <<"N", "o", "n", "e">>, <<"a", "@", "b", ".", "c", "o">>,
      <<"(", "5", "5", "5", ")", " ", "1", "2", "3", "-", "4", "5", "6", "7">>,
      <<"n", "o", " ", "s", "i", "t", "e">>, <<"a", "l", "s", ".", "c", "o">>,
      <<"$", "1", "2">>, <<"f", "i", "x", ",", " ", "f", "i", "t">>, <<"H", "i", "!">>>>

AllPlain == [i \in 1..NumFields |-> "plain"]

\* the value of a field as it stands between its markers
Between(form, val) ==
    CASE form \in {"padded", "foreign"} -> <<" ", "\n">> \o val \o <<" ">>
      [] form = "nested" -> val \o <<"<", "/", "b", ">">> \o val
      [] OTHER -> val

\* the text of one field
Segment(i, form, val) ==
    LET label == Labels[LabelKeys[i]]
        close == CASE form = "truncated" -> CloseTag(SubSeq(label, 1, Len(label) - 1))
                   [] form = "foreign" -> CloseTag(<<"X">>)
                   [] form = "unclosed" -> Empty
                   [] OTHER -> CloseTag(label)
    IN IF form = "absent" THEN Empty
       ELSE OpenTag(label) \o Between(form, val) \o close \o <<"\n">>

RECURSIVE RenderFrom(_, _)
RenderFrom(x, i) ==
    IF i > NumFields THEN Empty
    ELSE Segment(i, x.form[i], x.val[i]) \o RenderFrom(x, i + 1)

\* the answer described by x
Render(x) == RenderFrom(x, 1)

\* answers that differ from the all-plain one in the form of one field, or of
\* two fields that follow each other
ShapeInputs ==
    {[form |-> AllPlain, val |-> DefaultVals]}
    \cup {[form |-> [AllPlain EXCEPT ![i] = f], val |-> DefaultVals] :
            i \in 1..NumFields, f \in Forms}
    \cup {[form |-> [AllPlain EXCEPT ![i] = f, ![i + 1] = g], val |-> DefaultVals] :
            i \in 1..(NumFields - 1), f \in Lenient, g \in Forms}

\* answers with one field that has no closing marker, another field after it
UnclosedInputs ==
    {[form |-> [AllPlain EXCEPT ![i] = "unclosed"], val |-> DefaultVals] :
        i \in 1..(NumFields - 1)}

ExtractInputs == ShapeInputs \cup UnclosedInputs

\* the forms of a field that has its opening marker and no closing marker of
\* its own
NoOwnClose == {"unclosed"} \cup Lenient

\* answers with a field that has no closing marker of its own: any one field,
\* the last one too; such a field followed by a field of any form, the form
\* without a closing marker and the absent field among them; such a field
\* with no text after its opening marker
OpenInputs ==
    {[form |-> [AllPlain EXCEPT ![i] = "unclosed"], val |-> DefaultVals] : i \in 1..NumFields}
    \cup {[form |-> [AllPlain EXCEPT ![i] = "unclosed", ![i + 1] = g], val |-> DefaultVals] :
            i \in 1..(NumFields - 1), g \in Forms \cup {"unclosed"}}
    \cup {[form |-> [AllPlain EXCEPT ![i] = f], val |-> [DefaultVals EXCEPT ![i] = Empty]] :
            i \in 1..NumFields, f \in NoOwnClose}

\* values of the name, the slug, the email and the phone of an answer
NameVals == {DefaultVals[1], <<"B", "o", " ", "&", " ", "C", "o">>, <<"!", "!", "!">>}

SlugVals == {DefaultVals[3], <<"A", "l", "'", "s", " ", "P", "l", "a", "c", "e">>}

EmailVals == {DefaultVals[6], <<"N", "o", "n", "e">>}

PhoneVals == {DefaultVals[7], <<"N", "/", "A">>, <<"5", "5", "5", "-", "1", "2", "3", "4">>}

\* a field given with one of vals, or not given
Opts(vals, i) ==
    {[form |-> "plain", val |-> v] : v \in vals} \cup {[form |-> "absent", val |-> DefaultVals[i]]}

\* answers that differ in their contact values, their name, their slug, and
\* in whether they give the niche
ContactInputs ==
    {[form |-> [AllPlain EXCEPT ![2] = nf, ![3] = sl.form, ![6] = e.form, ![7] = ph.form],
      val |-> [DefaultVals EXCEPT ![1] = n, ![3] = sl.val, ![6] = e.val, ![7] = ph.val]] :
        nf \in {"plain", "absent"}, n \in NameVals, sl \in Opts(SlugVals, 3),
        e \in Opts(EmailVals, 6), ph \in Opts(PhoneVals, 7)}

\* answers that name a channel themselves
ChannelTag(word) ==
    <<"<", "C", "H", "A", "N", "N", "E", "L", ">">> \o word
    \o <<"<", "/", "C", "H", "A", "N", "N", "E", "L", ">">>

ChannelInputs ==
    {[form |-> AllPlain, val |-> [DefaultVals EXCEPT ![8] = ChannelTag(S_sms)]],
     [form |-> [AllPlain EXCEPT ![6] = "absent"],
      val |-> [DefaultVals EXCEPT ![8] = ChannelTag(S_email)]]}

ResearchInputs == ContactInputs \cup ChannelInputs

UnitInput(x) == [fn |-> "input", arg |-> x, out |-> <<>>]

\* extractBusinessData applied to the answer unit.arg describes
ExtractUnit ==
    /\ unit.fn = "input"
    /\ unit.arg \in ExtractInputs
    /\ unit' = [fn |-> "extractBusinessData", arg |-> unit.arg,
                out |-> extractBusinessData(Render(unit.arg))]
    /\ UNCHANGED <<llm, gh, store, pubLog, sheet, mail, sms, run, calls, runs, net, batch>>

\* extractBusinessData and validateBusinessData applied to an answer with a
\* field that has no closing marker of its own
OpenFieldUnit ==
    /\ unit.fn = "input"
    /\ unit.arg \in OpenInputs
    /\ \E data \in {extractBusinessData(Render(unit.arg))} :
         unit' = [fn |-> "extract", arg |-> unit.arg,
                  out |-> [data |-> data, validation |-> validateBusinessData(data)]]
    /\ UNCHANGED <<llm, gh, store, pubLog, sheet, mail, sms, run, calls, runs, net, batch>>

\* phaseResearch on the answer unit.arg describes, what the loop of the
\* pipeline's first attempt does with its result, and the slug phaseLog
\* would publish the lead under
ResearchUnit ==
    /\ unit.fn = "input"
    /\ unit.arg \in ResearchInputs
    /\ LET result == [text |-> Render(unit.arg), error |-> Null]
           research == phaseResearch(result)
       IN unit' = [fn |-> "phaseResearch", arg |-> unit.arg,
                   out |-> [research |-> research,
                            next |-> AfterResearch([RunIdle EXCEPT !.pc = "research_wait",
                                                                   !.attempt = 1],
                                                   research, ResearchCause(result)),
                            key |-> IF research.hasData THEN LogSlug(research.data)
                                    ELSE Empty]]
    /\ UNCHANGED <<llm, gh, store, pubLog, sheet, mail, sms, run, calls, runs, net, batch>>

\* a required field given, not given, or given with nothing but whitespace
\* between its markers
RequiredOpts(i) ==
    {[form |-> "plain", val |-> DefaultVals[i]],
     [form |-> "absent", val |-> DefaultVals[i]],
     [form |-> "padded", val |-> Empty]}

\* answers that differ in which of the required fields they give, and in
\* whether they give the contacts and the services
ValidateInputs ==
    {[form |-> [AllPlain EXCEPT ![1] = n.form, ![2] = ni.form, ![4] = a.form,
                                ![12] = d.form, ![6] = rest, ![7] = rest, ![11] = rest],
      val |-> [DefaultVals EXCEPT ![1] = n.val, ![2] = ni.val, ![4] = a.val, ![12] = d.val]] :
        n \in RequiredOpts(1), ni \in RequiredOpts(2), a \in RequiredOpts(4),
        d \in RequiredOpts(12), rest \in {"plain", "absent"}}

\* extractBusinessData and validateBusinessData applied to the answer unit.arg
\* describes
ValidateUnit ==
    /\ unit.fn = "answer"
    /\ \E data \in {extractBusinessData(Render(unit.arg))} :
         unit' = [fn |-> "validateBusinessData", arg |-> unit.arg,
                  out |-> [data |-> data, validation |-> validateBusinessData(data)]]
    /\ UNCHANGED <<llm, gh, store, pubLog, sheet, mail, sms, run, calls, runs, net, batch>>

\* values of a contact field
ContactTexts ==
    {Empty,
     <<"N", "o", "n", "e">>,
     <<"N", "O", "N", "E">>,
     <<"n", "/", "a">>,
     <<"N", "/", "A">>,
     <<"u", "n", "k", "n", "o", "w", "n">>,
     <<"U", "n", "k", "n", "o", "w", "n">>,
     <<"n", "o", " ", "e", "m", "a", "i", "l", " ", "f", "o", "u", "n", "d">>,
     <<"N", "o", " ", "E", "m", "a", "i", "l", " ", "F", "o", "u", "n", "d">>,
     <<"n", "o", " ", "p", "h", "o", "n", "e", " ", "f", "o", "u", "n", "d">>,
     <<" ", "n", "o", "n", "e", " ">>,
     <<" ", " ">>,
     <<"a", "@", "b", ".", "c", "o">>,
     <<"A", "@", "B", ".", "C", "O">>,
     <<"@">>,
     <<"a", "b", "c">>,
     <<"n", "o", "n", "e", "@", "x", ".", "c", "o">>,
     <<"n", "/", "a", "@">>,
     <<"5", "5", "5", "-", "1", "2", "3", "-", "4", "5", "6", "7">>,
     <<"(", "5", "5", "5", ")", " ", "1", "2", "3", " ", "4", "5", "6", "7">>,
     <<"5", "5", "5", "1", "2", "3", "4", "5", "6", "7">>,
     <<"1", " ", "5", "5", "5", " ", "1", "2", "3", " ", "4", "5", "6", "7">>,
     <<"5", "5", "5", "-", "1", "2", "3", "4">>,
     <<"+", "4", "4", " ", "2", "0", " ", "7", "9", "4", "6", " ", "0", "9", "5", "8">>,
     <<"1", "2", "3", "4", "5", "6", "7", "8", "9">>,
     <<"c", "a", "l", "l", " ", "5", "5", "5", " ", "1", "2", "3", " ", "4", "5", "6", "7", " ", "n", "o", "w">>,
     <<"u", "n", "k", "n", "o", "w", "n", " ", "5", "5", "5", "1", "2", "3", "4", "5", "6", "7">>,
     <<"a", "@", "5", "5", "5", "1", "2", "3", "4", "5", "6", "7", ".", "c", "o">>,
     <<"5", "5", "5", "-", "1", "2", "3", "-", "4", "5", "6", "7", " ", "x", "8", "9">>}

\* isValidEmail, isValidPhone and normalizePhone applied to the text unit.arg
EmailUnit ==
    /\ unit.fn = "text"
    /\ unit' = [fn |-> "isValidEmail", arg |-> unit.arg, out |-> isValidEmail(unit.arg)]
    /\ UNCHANGED <<llm, gh, store, pubLog, sheet, mail, sms, run, calls, runs, net, batch>>

PhoneUnit ==
    /\ unit.fn = "text"
    /\ unit' = [fn |-> "isValidPhone", arg |-> unit.arg, out |-> isValidPhone(unit.arg)]
    /\ UNCHANGED <<llm, gh, store, pubLog, sheet, mail, sms, run, calls, runs, net, batch>>

NormalizeUnit ==
    /\ unit.fn = "text"
    /\ unit' = [fn |-> "normalizePhone", arg |-> unit.arg, out |-> normalizePhone(unit.arg)]
    /\ UNCHANGED <<llm, gh, store, pubLog, sheet, mail, sms, run, calls, runs, net, batch>>

----
\* Pipeline.js: sendAllPending.

MaxBatches == 2

MaxRows == 2

\* an activation of sendAllPending: its position, its local variables, the
\* toast it showed, the sends it attempted for each row of data, what it wrote
\* with console.error, its calls of Utilities.sleep, the requests it made, and
\* the number of activations so far
BatchIdle ==
    [pc |-> "idle", config |-> NullConfig, data |-> <<>>, i |-> 0, sentCount |-> 0,
     skipCount |-> 0, failCount |-> 0, toast |-> Null, attempts |-> <<>>, errors |-> <<>>,
     sleeps |-> <<>>, mailRequests |-> 0, smsRequests |-> 0, n |-> 0]

\* the leads of the two answers that phaseResearch accepts
Leads == {ResearchOfText[t].research.data : t \in {T_email, T_sms}}

\* the row phaseLog writes for a lead
RowOf(biz) ==
    LET config == getConfig(SendProps)
        liveUrl == LiveUrl(LogSlug(biz))
    IN LogRow(config, biz, liveUrl, LogMessages(config, biz, liveUrl, FALSE))

\* a row as phaseLog wrote it, and as edited by hand since: the email
\* removed, or the row marked as sent
Edited(row) ==
    IF row.Channel = S_email
    THEN {row,
          [row EXCEPT !.Target_Email = Empty],
          [row EXCEPT !.Status = <<"Sent">>, !.Sent_Date = <<"(earlier)">>]}
    ELSE {row}

\* rows of the Leads tab
SheetRows == UNION {Edited(row) : row \in {RowOf(biz) : biz \in Leads}}

RECURSIVE SeqsUpTo(_, _)
\* the sequences of at most n members of S
SeqsUpTo(S, n) ==
    IF n = 0 THEN {<<>>}
    ELSE SeqsUpTo(S, n - 1) \cup {Append(q, x) : q \in SeqsUpTo(S, n - 1), x \in S}

Sheets == SeqsUpTo(SheetRows, MaxRows)

\* a variant of the test of the result that holds for every result
BatchMarks_Always(result) == TRUE

\* if (result.success)
BatchMarks(result) == result.success

\* a variant that pauses only after a send that succeeded
BatchPause_OnSuccess(sheetRow, result) ==
    IF result.success THEN <<[row |-> sheetRow, ms |-> 2000]>> ELSE <<>>

\* Utilities.sleep(2000) at the end of the pass for a row that was tried,
\* whatever the result of the send
BatchPause(sheetRow, result) == <<[row |-> sheetRow, ms |-> 2000]>>

\* the body of the loop for one row, up to the send: whether the row awaits
\* a send, the branch taken, and the result of the send under env
BatchRow(config, row, env) ==
    LET channel == ToLowerCase(OrElse(row.Channel, S_email))
        businessName == OrElse(row.Business_Name, <<"your business">>)
        liveUrl == OrElse(row.Live_Pages_URL, Empty)
        fakeBiz == [NoBiz EXCEPT !.business_name = businessName,
                                 !.niche = <<"local services">>,
                                 !.area = OrElse(row.Area, Empty)]
        byMail == channel = S_email /\ isValidEmail(row.Target_Email)
        bySms == ~byMail /\ channel = S_sms /\ isValidPhone(row.Target_Phone)
    IN [pending |-> row.Status = <<"Review Needed">>,
        channel |-> channel,
        byMail |-> byMail,
        bySms |-> bySms,
        result |->
            IF byMail
            THEN sendEmailMessage(row.Target_Email,
                                  <<"I built ">> \o businessName \o <<" a free website">>,
                                  buildProfessionalEmail(config, fakeBiz, liveUrl),
                                  OrElse(row.Drafted_Message,
                                         buildPlainTextMessage(config, fakeBiz, liveUrl)),
                                  config.senderName, env)
            ELSE sendSmsMessage(row.Target_Phone,
                                OrElse(row.Drafted_Message,
                                       buildSmsMessage(config,
                                                       [NoBiz EXCEPT !.business_name = businessName],
                                                       liveUrl)),
                                config, env)]

\* sendAllPending up to its loop
BatchStartWith(found) ==
    /\ batch.pc = "idle"
    /\ batch.n < MaxBatches
    /\ \A p \in Procs : Quiet(p)
    /\ \E props \in found :
        LET config == getConfig(props)
            begun == [BatchIdle EXCEPT !.n = batch.n + 1]
        IN batch' =
             IF config.isNull THEN [begun EXCEPT !.pc = "done"]
             ELSE IF ~sheet.headers
             THEN [begun EXCEPT !.pc = "done", !.config = config,
                                !.toast = <<"No Leads tab found.">>]
             ELSE [begun EXCEPT !.pc = "loop", !.config = config, !.data = sheet.rows,
                                !.i = 1, !.attempts = [k \in DOMAIN sheet.rows |-> 0]]
    /\ UNCHANGED <<llm, gh, store, pubLog, sheet, mail, sms, run, calls, runs, net, unit>>

BatchStart == BatchStartWith(RunProps)

\* one pass of the loop: data[i] in the script is batch.data[batch.i] here, and
\* its row of the sheet is row i + 1
BatchStep ==
    /\ batch.pc = "loop"
    /\ batch.i <= Len(batch.data)
    /\ \E env \in SendOutcomes :
       \E r \in {BatchRow(batch.config, batch.data[batch.i], env)} :
        LET b == batch
            next == [b EXCEPT !.i = @ + 1]
        IN IF ~r.pending \/ (~r.byMail /\ ~r.bySms)
           THEN /\ batch' = [next EXCEPT !.skipCount = @ + 1]
                /\ UNCHANGED <<sheet, mail, sms>>
           ELSE /\ batch' =
                     [next EXCEPT
                        !.attempts[b.i] = @ + 1,
                        !.mailRequests = IF r.byMail THEN @ + r.result.requests ELSE @,
                        !.smsRequests = IF r.bySms THEN @ + r.result.requests ELSE @,
                        !.sentCount = IF BatchMarks(r.result) THEN @ + 1 ELSE @,
                        !.failCount = IF BatchMarks(r.result) THEN @ ELSE @ + 1,
                        !.errors = IF BatchMarks(r.result) THEN @
                                   ELSE Append(@, <<"Failed (">> \o r.channel \o <<") row ">>
                                                  \o NumToString(b.i + 1) \o <<": ">>
                                                  \o r.result.error),
                        !.sleeps = @ \o BatchPause(b.i + 1, r.result)]
                /\ sheet' = IF BatchMarks(r.result)
                            THEN [sheet EXCEPT !.rows = MarkSent(@, b.i + 1)]
                            ELSE sheet
                /\ mail' = IF r.byMail THEN mail \o r.result.sent ELSE mail
                /\ sms' = IF r.bySms THEN sms \o r.result.sent ELSE sms
    /\ UNCHANGED <<llm, gh, store, pubLog, run, calls, runs, net, unit>>

\* the toast after the loop
BatchEnd ==
    /\ batch.pc = "loop"
    /\ batch.i > Len(batch.data)
    /\ batch' = [batch EXCEPT !.pc = "done",
                              !.toast = <<"Sent: ">> \o NumToString(batch.sentCount)
                                        \o <<" | Skipped: ">> \o NumToString(batch.skipCount)
                                        \o <<" | Failed: ">> \o NumToString(batch.failCount)]
    /\ UNCHANGED <<llm, gh, store, pubLog, sheet, mail, sms, run, calls, runs, net, unit>>

BatchReturn ==
    /\ batch.pc = "done"
    /\ batch' = [BatchIdle EXCEPT !.n = batch.n]
    /\ UNCHANGED <<llm, gh, store, pubLog, sheet, mail, sms, run, calls, runs, net, unit>>

----
\* Direct use of the two library functions, as a caller of Providers.js or
\* GitHub.js makes it: one call at a time, any argument.

\* the provider identifiers a caller can pass in config.provider
ProviderIds == {S_openai, S_anthropic, S_gemini, S_xai, <<"b", "o", "g", "u", "s">>, Empty}

\* slugs and pages a caller can pass to deployToGitHubPages
Slugs == {<<"a", "l", "s">>, <<"b">>}

Pages == {<<"p", "1">>, <<"p", "2">>}

DirectCallLLM(p) ==
    /\ calls < MaxCalls
    /\ Quiet(p)
    /\ \E provider \in ProviderIds : llm' = [llm EXCEPT ![p] = callLLM(provider)]
    /\ calls' = calls + 1
    /\ net' = [net EXCEPT ![p] = NoRequests]
    /\ UNCHANGED <<gh, store, pubLog, sheet, mail, sms, run, runs, batch, unit>>

DirectReturnLLM(p) ==
    /\ run[p].pc = "idle"
    /\ llm[p].pc = "done"
    /\ llm' = [llm EXCEPT ![p] = LLMIdle]
    /\ UNCHANGED <<gh, store, pubLog, sheet, mail, sms, run, calls, runs, net, batch, unit>>

DirectDeploy(p) ==
    /\ calls < MaxCalls
    /\ Quiet(p)
    /\ \E slug \in Slugs, html \in Pages :
        gh' = [gh EXCEPT ![p] = deployToGitHubPages(slug, html)]
    /\ calls' = calls + 1
    /\ net' = [net EXCEPT ![p] = NoRequests]
    /\ UNCHANGED <<llm, store, pubLog, sheet, mail, sms, run, runs, batch, unit>>

DirectReturnDeploy(p) ==
    /\ run[p].pc = "idle"
    /\ gh[p].pc = "done"
    /\ gh' = [gh EXCEPT ![p] = GHIdle]
    /\ UNCHANGED <<llm, store, pubLog, sheet, mail, sms, run, calls, runs, net, batch, unit>>

\* a repository that holds no demo yet, or the demo of an earlier run
InitialStores ==
    {{},
     {[path |-> FilePath(<<"a", "l", "s">>), content |-> <<"p", "0">>,
       sha |-> BlobSha(<<"p", "0">>)]}}

Init ==
    /\ llm = [p \in Procs |-> LLMIdle]
    /\ gh = [p \in Procs |-> GHIdle]
    /\ store \in InitialStores
    /\ pubLog = <<>>
    /\ sheet = [headers |-> FALSE, rows |-> <<>>]
    /\ mail = <<>>
    /\ sms = <<>>
    /\ run = [p \in Procs |-> RunIdle]
    /\ calls = 0
    /\ runs = 0
    /\ net = [p \in Procs |-> NoRequests]
    /\ batch = BatchIdle
    /\ unit = NoUnit

\* the state before a function is applied on its own to an input
InitUnit(inputs) ==
    /\ llm = [p \in Procs |-> LLMIdle]
    /\ gh = [p \in Procs |-> GHIdle]
    /\ store = {}
    /\ pubLog = <<>>
    /\ sheet = [headers |-> FALSE, rows |-> <<>>]
    /\ mail = <<>>
    /\ sms = <<>>
    /\ run = [p \in Procs |-> RunIdle]
    /\ calls = 0
    /\ runs = 0
    /\ net = [p \in Procs |-> NoRequests]
    /\ batch = BatchIdle
    /\ unit \in {UnitInput(x) : x \in inputs}

InitParse == InitUnit(ExtractInputs \cup ResearchInputs \cup OpenInputs)

NextParse == ExtractUnit \/ ResearchUnit \/ OpenFieldUnit

SpecParse == InitParse /\ [][NextParse]_vars

\* Script Properties that differ in the provider, in the two credentials that
\* are required, and in the three of Twilio: not set, set, set to whitespace
ConfigInputs ==
    {[NoProps EXCEPT !.LLM_PROVIDER = provider, !.LLM_API_KEY = apiKey,
                     !.GITHUB_PAT = githubPat, !.TWILIO_ACCOUNT_SID = sid,
                     !.TWILIO_AUTH_TOKEN = token, !.TWILIO_PHONE = phone] :
        provider \in {Null, Empty, S_openai, <<" ", "G", "e", "m", "i", "n", "i", " ">>,
                      <<"b", "o", "g", "u", "s">>},
        apiKey \in {Null, Empty, <<"k">>},
        githubPat \in {Null, Empty, <<"t">>},
        sid \in {Null, <<" ">>, <<"A", "C", "1">>},
        token \in {Null, <<"t", "k">>},
        phone \in {<<" ", " ">>, <<"+", "1", "8", "0", "0", "5", "5", "5", "1", "2", "3", "4">>}}

\* getConfig applied to the Script Properties unit.arg
ConfigUnit ==
    /\ unit.fn = "props"
    /\ unit' = [fn |-> "getConfig", arg |-> unit.arg, out |-> getConfig(unit.arg)]
    /\ UNCHANGED <<llm, gh, store, pubLog, sheet, mail, sms, run, calls, runs, net, batch>>

\* a run and a batch that find the Script Properties unit.arg
ConfigRunStart(p) == unit.fn = "getConfig" /\ RunStartWith(p, {unit.arg})

ConfigBatchStart == unit.fn = "getConfig" /\ BatchStartWith({unit.arg})

\* the Leads tab with the rows of the two leads, both awaiting their send
PendingSheet ==
    {[headers |-> TRUE, rows |-> rows] :
        rows \in {<<RowOf(ResearchOfText[T_email].research.data),
                    RowOf(ResearchOfText[T_sms].research.data)>>}}

\* the state before getConfig is applied, and before a run or a batch starts
InitConfig ==
    /\ llm = [p \in Procs |-> LLMIdle]
    /\ gh = [p \in Procs |-> GHIdle]
    /\ store = {}
    /\ pubLog = <<>>
    /\ sheet \in PendingSheet \cup {[headers |-> FALSE, rows |-> <<>>]}
    /\ mail = <<>>
    /\ sms = <<>>
    /\ run = [p \in Procs |-> RunIdle]
    /\ calls = 0
    /\ runs = 0
    /\ net = [p \in Procs |-> NoRequests]
    /\ batch = BatchIdle
    /\ unit \in {[fn |-> "props", arg |-> props, out |-> <<>>] : props \in ConfigInputs}

\* of a run only its start: the phases are those of SpecRun
NextConfig ==
    \/ ConfigUnit
    \/ \E p \in Solo : ConfigRunStart(p) \/ RunReturn(p)
    \/ ConfigBatchStart
    \/ BatchStep
    \/ BatchEnd
    \/ BatchReturn

SpecConfig == InitConfig /\ [][NextConfig]_vars

\* the token the prompt of phaseResearch asks the model to put where the link
\* goes
LIVE_DEMO_URL == <<"[", "L", "I", "V", "E", "_", "D", "E", "M", "O", "_", "U", "R", "L", "]">>

\* drafts of the model, with the token and without it
Drafts ==
    {<<"S", "e", "e", " ">> \o LIVE_DEMO_URL \o <<" ", "n", "o", "w">>,
     <<"H", "i", "!">>}

\* what the message builders are called with: a lead with its draft, the
\* address of its page, and whether a builder throws
MessageInputs ==
    {[config |-> config, biz |-> [lead EXCEPT !.email_draft = draft],
      liveUrl |-> LiveUrl(LogSlug(lead)), renderThrows |-> t] :
        config \in {getConfig(SendProps)}, lead \in Leads, draft \in Drafts, t \in BOOLEAN}

\* the messages phaseLog builds for a lead and the one it writes to the row
MessageUnit ==
    /\ unit.fn = "lead"
    /\ \E msgs \in {LogMessages(unit.arg.config, unit.arg.biz, unit.arg.liveUrl,
                                 unit.arg.renderThrows)} :
         unit' = [fn |-> "phaseLog", arg |-> unit.arg,
                  out |-> [msgs |-> msgs,
                           draftedMessage |->
                               LogRow(unit.arg.config, unit.arg.biz, unit.arg.liveUrl,
                                      msgs).Drafted_Message]]
    /\ UNCHANGED <<llm, gh, store, pubLog, sheet, mail, sms, run, calls, runs, net, batch>>

\* the recipient of an SMS: phaseOutreach and sendAllPending send to a phone
\* that isValidPhone accepts, and sendSmsMessage sets To to normalizePhone of it
RecipientUnit ==
    /\ unit.fn = "text"
    /\ unit' = [fn |-> "sendSmsMessage", arg |-> unit.arg,
                out |-> [accepted |-> isValidPhone(unit.arg), To |-> normalizePhone(unit.arg)]]
    /\ UNCHANGED <<llm, gh, store, pubLog, sheet, mail, sms, run, calls, runs, net, batch>>

\* the state before a helper is applied on its own to an answer or to a text
InitHelpers ==
    /\ llm = [p \in Procs |-> LLMIdle]
    /\ gh = [p \in Procs |-> GHIdle]
    /\ store = {}
    /\ pubLog = <<>>
    /\ sheet = [headers |-> FALSE, rows |-> <<>>]
    /\ mail = <<>>
    /\ sms = <<>>
    /\ run = [p \in Procs |-> RunIdle]
    /\ calls = 0
    /\ runs = 0
    /\ net = [p \in Procs |-> NoRequests]
    /\ batch = BatchIdle
    /\ unit \in {[fn |-> "answer", arg |-> x, out |-> <<>>] : x \in ValidateInputs}
              \cup {[fn |-> "text", arg |-> t, out |-> <<>>] : t \in ContactTexts}
              \cup {[fn |-> "lead", arg |-> x, out |-> <<>>] : x \in MessageInputs}

NextHelpers ==
    ValidateUnit \/ EmailUnit \/ PhoneUnit \/ NormalizeUnit \/ MessageUnit \/ RecipientUnit

SpecHelpers == InitHelpers /\ [][NextHelpers]_vars

\* phaseLog for lead biz, its page published, on a sheet that holds rows
Logged(config, biz, rows) ==
    phaseLog(config, biz, [success |-> TRUE, liveUrl |-> LiveUrl(LogSlug(biz)), error |-> Null],
             rows, FALSE, FALSE)

\* a run that has published and logged lead biz under config, with result
\* log, and is about to call phaseOutreach
AtOutreach(config, biz, build, log) ==
    [RunIdle EXCEPT !.pc = "outreach", !.config = config, !.attempt = 1,
                    !.research = [hasData |-> TRUE, data |-> biz, error |-> Null],
                    !.hasBiz = TRUE, !.biz = biz, !.build = build, !.log = log,
                    !.events = <<"research", "build", "log">>]

\* the states sendAllPending and phaseOutreach are looked at from: no run
\* under way and a Leads tab, if any, with some rows; or a run with AUTO_SEND
\* on that has just logged its lead below such rows
InitSend ==
    /\ llm = [p \in Procs |-> LLMIdle]
    /\ gh = [p \in Procs |-> GHIdle]
    /\ pubLog = <<>>
    /\ mail = <<>>
    /\ sms = <<>>
    /\ calls = 0
    /\ net = [p \in Procs |-> NoRequests]
    /\ batch = BatchIdle
    /\ unit = NoUnit
    /\ \/ /\ sheet \in {[headers |-> FALSE, rows |-> <<>>]}
                       \cup {[headers |-> TRUE, rows |-> rows] : rows \in Sheets}
          /\ run = [p \in Procs |-> RunIdle]
          /\ runs = 0
          /\ store = {}
       \/ \E rows \in Sheets, biz \in Leads, build \in {BuildOfText[H_ok]},
             config \in {getConfig(props) : props \in {SendProps, TwilioProps}} :
            \E logged \in {Logged(config, biz, rows)} :
                /\ sheet = [headers |-> TRUE, rows |-> logged.rows]
                /\ run = [p \in Procs |-> IF p \in Solo
                                           THEN AtOutreach(config, biz, build, logged.log)
                                           ELSE RunIdle]
                /\ runs = 1
                /\ store = {[path |-> FilePath(LogSlug(biz)), content |-> build.html,
                             sha |-> BlobSha(build.html)]}

NextSend ==
    \/ BatchStart
    \/ BatchStep
    \/ BatchEnd
    \/ BatchReturn
    \/ \E p \in Solo : Outreach(p) \/ RunReturn(p)

SpecSend == InitSend /\ [][NextSend]_vars

NextLLM == \E p \in Solo : DirectCallLLM(p) \/ LLMAttempt(p) \/ DirectReturnLLM(p)

SpecLLM == Init /\ [][NextLLM]_vars

NextPublish ==
    \E p \in Solo : DirectDeploy(p) \/ GitHubGet(p) \/ GitHubPut(p) \/ DirectReturnDeploy(p)

SpecPublish == Init /\ [][NextPublish]_vars

\* calls of deployToGitHubPages by two processes, their requests in any order
NextRace ==
    \E p \in Procs : DirectDeploy(p) \/ GitHubGet(p) \/ GitHubPut(p) \/ DirectReturnDeploy(p)

SpecRace == Init /\ [][NextRace]_vars

\* One invocation a behaviour, every call it makes returning or throwing in
\* the end: a run from its start, or a batch over a Leads tab.

InitLive ==
    /\ llm = [p \in Procs |-> LLMIdle]
    /\ gh = [p \in Procs |-> GHIdle]
    /\ store = {}
    /\ pubLog = <<>>
    /\ sheet \in {[headers |-> FALSE, rows |-> <<>>]}
                 \cup {[headers |-> TRUE, rows |-> rows] : rows \in Sheets}
    /\ mail = <<>>
    /\ sms = <<>>
    /\ run = [p \in Procs |-> RunIdle]
    /\ calls = 0
    /\ runs = 0
    /\ net = [p \in Procs |-> NoRequests]
    /\ batch = BatchIdle
    /\ unit = NoUnit

LiveRunStart(p) ==
    /\ runs = 0
    /\ batch.n = 0
    /\ ~sheet.headers
    /\ RunStartWith(p, {SendProps, BrokenProps})

LiveBatchStart ==
    /\ runs = 0
    /\ batch.n = 0
    /\ BatchStartWith({SendProps, TwilioProps, BrokenProps})

\* the steps of a run that has started
RunSteps(p) ==
    \/ ResearchCall(p) \/ LLMAttempt(p) \/ ResearchReturn(p)
    \/ BuildCall(p) \/ BuildReturn(p)
    \/ LogCall(p) \/ GitHubGet(p) \/ GitHubPut(p) \/ LogReturn(p)
    \/ Outreach(p)
    \/ RunReturn(p)

\* the steps of a batch that has started
BatchSteps == BatchStep \/ BatchEnd \/ BatchReturn

NextLive ==
    \/ \E p \in Solo : LiveRunStart(p) \/ RunSteps(p)
    \/ LiveBatchStart
    \/ BatchSteps

\* the script goes on as long as it has a step to take; nothing makes a user
\* start a run or a batch
SpecLive ==
    /\ InitLive
    /\ [][NextLive]_vars
    /\ \A p \in Solo : WF_vars(RunSteps(p))
    /\ WF_vars(BatchSteps)

\* a run in its phase 3, deployToGitHubPages having returned
AtLog(config, biz, build) ==
    [RunIdle EXCEPT !.pc = "log_wait", !.config = config, !.attempt = 1,
                    !.research = [hasData |-> TRUE, data |-> biz, error |-> Null],
                    !.hasBiz = TRUE, !.biz = biz, !.build = build,
                    !.events = <<"research", "build", "log">>]

Deployed(biz, build) ==
    [GHIdle EXCEPT !.pc = "done", !.slug = LogSlug(biz), !.html = build.html,
                   !.result = [success |-> TRUE, liveUrl |-> LiveUrl(LogSlug(biz)),
                               error |-> Null]]

\* two runs started by two users of the sheet, each with its lead and its
\* page published, on a Leads tab with earlier rows
InitShared ==
    /\ llm = [p \in Procs |-> LLMIdle]
    /\ pubLog = <<>>
    /\ mail = <<>>
    /\ sms = <<>>
    /\ calls = 0
    /\ runs = 2
    /\ net = [p \in Procs |-> NoRequests]
    /\ batch = BatchIdle
    /\ unit = NoUnit
    /\ \E rows \in Sheets, leads \in [Procs -> Leads], build \in {BuildOfText[H_ok]},
          config \in {getConfig(props) : props \in {SendProps, TwilioProps}} :
         /\ sheet = [headers |-> TRUE, rows |-> rows]
         /\ run = [p \in Procs |-> AtLog(config, leads[p], build)]
         /\ gh = [p \in Procs |-> Deployed(leads[p], build)]
         /\ store = {[path |-> FilePath(LogSlug(leads[p])), content |-> build.html,
                      sha |-> BlobSha(build.html)] : p \in Procs}

NextShared == \E p \in Procs : LogAppend(p) \/ LogLastRow(p) \/ Outreach(p) \/ RunReturn(p)

SpecShared == InitShared /\ [][NextShared]_vars

NextRun ==
    \E p \in Solo :
        \/ RunStart(p)
        \/ ResearchCall(p)
        \/ LLMAttempt(p)
        \/ ResearchReturn(p)
        \/ BuildCall(p)
        \/ BuildReturn(p)
        \/ LogCall(p)
        \/ GitHubGet(p)
        \/ GitHubPut(p)
        \/ LogReturn(p)
        \/ Outreach(p)
        \/ RunReturn(p)

SpecRun == Init /\ [][NextRun]_vars

----
\* Claims about callLLM and withRetry (SpecLLM).

\* an attempt failed: fn() threw, or returned a result with an error
Failed(out) == out.threw \/ Truthy(out.result.error)

\* the message of a failed attempt
FailureMessage(out) == IF out.threw THEN out.exc ELSE out.result.error

AllFailed(log) == \A k \in 1..Len(log) : Failed(log[k])

\* C1: withRetry invokes the provider call at most 3 times, and makes attempt
\* k+1 only if every attempt from 1 to k threw or returned an error.
C1_AtMostThreeAttempts ==
    \A p \in Procs :
        /\ Len(llm[p].log) <= 3
        /\ net[p].llm = Len(llm[p].log) \/ run[p].pc # "idle" \/ llm[p].pc = "idle"
        /\ \A k \in 1..Len(llm[p].log) : k < Len(llm[p].log) => Failed(llm[p].log[k])

\* a call that made its third attempt after two failures
C1_Witness ==
    \E p \in Procs :
        /\ llm[p].pc = "done"
        /\ Len(llm[p].log) = 3
        /\ Failed(llm[p].log[1]) /\ Failed(llm[p].log[2])

\* C2: the result of the first attempt that returns without an error is
\* returned exactly (text non-empty, error null), with no further attempt.
C2_FirstSuccessReturned ==
    \A p \in Procs : \A k \in 1..Len(llm[p].log) :
        ~Failed(llm[p].log[k]) =>
            /\ k = Len(llm[p].log)
            /\ llm[p].pc = "done"
            /\ llm[p].result = llm[p].log[k].result
            /\ Truthy(llm[p].result.text)
            /\ llm[p].result.error = Null

\* a call whose second attempt was the first to succeed
C2_Witness ==
    \E p \in Procs :
        /\ llm[p].pc = "done"
        /\ Len(llm[p].log) = 2
        /\ Failed(llm[p].log[1])
        /\ ~Failed(llm[p].log[2])
        /\ llm[p].result.text \in AnswerTexts

\* C3: when all 3 attempts fail, the returned error is the last failure's
\* message prefixed with 'All retries failed. Last error: ', whether the
\* third attempt threw or returned an error.
C3_ExhaustedErrorPrefixed ==
    \A p \in Procs :
        (llm[p].pc = "done" /\ Len(llm[p].log) = 3 /\ AllFailed(llm[p].log)) =>
            llm[p].result.error
                = <<"All retries failed. Last error: ">> \o FailureMessage(llm[p].log[3])

\* C4: callLLM never propagates an exception; each result has a non-empty
\* text and a null error, or an empty text and a non-empty error; an unknown
\* provider is reported in the result, no attempt made.
C4_NeverThrowsResultShape ==
    \A p \in Procs :
        /\ ~llm[p].raised
        /\ llm[p].pc = "done" =>
            /\ \/ Truthy(llm[p].result.text) /\ llm[p].result.error = Null
               \/ llm[p].result.text = Empty /\ Truthy(llm[p].result.error)
            /\ llm[p].provider \notin {S_openai, S_anthropic, S_gemini, S_xai} =>
                /\ llm[p].result.error = <<"Unknown provider: ">> \o llm[p].provider
                /\ llm[p].log = <<>>

\* a call whose three attempts all threw, and which returned a result
C4_Witness ==
    \E p \in Procs :
        /\ llm[p].pc = "done"
        /\ Len(llm[p].log) = 3
        /\ \A k \in 1..3 : llm[p].log[k].threw
        /\ llm[p].result.text = Empty
        /\ Truthy(llm[p].result.error)

----
\* Claims about deployToGitHubPages (SpecPublish).

\* the file a publish of html under slug should leave
Published(slug, html) ==
    [path |-> <<"demos/">> \o slug \o <<"/index.html">>, content |-> html, sha |-> BlobSha(html)]

\* entries i and i+1 of pubLog are two calls in sequence with the same key and
\* different content, the first against a store without the key, and the
\* requests of both were served by the store
TwoPublishes(i) ==
    /\ i + 1 <= Len(pubLog)
    /\ pubLog[i].slug = pubLog[i + 1].slug
    /\ pubLog[i].html # pubLog[i + 1].html
    /\ ~pubLog[i].fault /\ ~pubLog[i + 1].fault
    /\ pubLog[i].getCode = 404

\* C8: two calls in sequence with the same key and different content, the
\* store starting without the key, leave exactly one object at the key, with
\* the second call's content; the second call is an update carrying the
\* revision the first created.
C8_SecondPublishUpdates ==
    \A i \in 1..Len(pubLog) :
        TwoPublishes(i) =>
            /\ pubLog[i].result.success /\ pubLog[i].putCode = 201
            /\ pubLog[i].puts[1].sha = Null
            /\ pubLog[i].after = {Published(pubLog[i].slug, pubLog[i].html)}
            /\ pubLog[i + 1].result.success /\ pubLog[i + 1].putCode = 200
            /\ Len(pubLog[i + 1].puts) = 1
            /\ pubLog[i + 1].puts[1].sha = BlobSha(pubLog[i].html)
            /\ pubLog[i + 1].puts[1].content = Base64Encode(pubLog[i + 1].html)
            /\ pubLog[i + 1].after = {Published(pubLog[i].slug, pubLog[i + 1].html)}
            /\ pubLog[i + 1].total = pubLog[i].total

C8_Witness ==
    /\ Len(pubLog) = 2
    /\ TwoPublishes(1)
    /\ pubLog[2].result.success
    /\ store = {Published(pubLog[1].slug, pubLog[2].html)}

\* C9: the result is a success with liveUrl
\* 'https://{org}.github.io/{repo}/demos/{key}/' exactly when the PUT was
\* answered 200 or 201; with any other PUT status it is a failure with an
\* empty liveUrl and an error carrying the status and at most the first 200
\* characters of the body.
C9_SuccessIffPutAccepted ==
    \A i \in 1..Len(pubLog) :
        LET e == pubLog[i]
            answered == Len(e.puts) = 1 /\ e.putCode # 0
        IN /\ e.result.success <=> (answered /\ e.putCode \in {200, 201})
           /\ e.result.success =>
                /\ e.result.liveUrl = <<"https://", CONFIG_ORG, ".github.io/", CONFIG_REPO,
                                        "/demos/">> \o e.slug \o <<"/">>
                /\ e.result.error = Null
           /\ (answered /\ e.putCode \notin {200, 201}) =>
                /\ ~e.result.success
                /\ e.result.liveUrl = Empty
                /\ e.result.error = <<"GitHub PUT failed (">> \o NumToString(e.putCode)
                                    \o <<"): ">> \o SubSeq(e.body, 1, Min(200, Len(e.body)))

\* a PUT answered 500 with a body longer than 200 characters
C9_Witness ==
    \E i \in 1..Len(pubLog) :
        /\ Len(pubLog[i].puts) = 1
        /\ pubLog[i].putCode = 500
        /\ Len(pubLog[i].body) > 200
        /\ ~pubLog[i].result.success

\* C10: deployToGitHubPages never raises; an exception thrown by the GET, by
\* the parsing of its body or by the PUT becomes a result with success false
\* and a non-empty error.
C10_PublishNeverRaises ==
    /\ \A p \in Procs : ~gh[p].raised
    /\ \A i \in 1..Len(pubLog) :
        /\ ~pubLog[i].raised
        /\ pubLog[i].threw =>
            /\ ~pubLog[i].result.success
            /\ pubLog[i].result.liveUrl = Empty
            /\ Truthy(pubLog[i].result.error)

\* a call whose PUT threw
C10_Witness ==
    \E i \in 1..Len(pubLog) :
        /\ pubLog[i].threw
        /\ Len(pubLog[i].puts) = 1
        /\ ~pubLog[i].result.success

----
\* Claims about runWebsiteForgePipeline (SpecRun).

RECURSIVE Count(_, _)
\* how many times a phase occurs in the events of a run
Count(events, phase) ==
    IF events = <<>> THEN 0
    ELSE (IF Head(events) = phase THEN 1 ELSE 0) + Count(Tail(events), phase)

\* the run has left the loop of phase 1 without a lead, all attempts made
Exhausted(r) == r.pc = "done" /\ ~r.hasBiz /\ Count(r.events, "research") = 5

NothingAfterResearch(p) ==
    /\ Count(run[p].events, "research") = Len(run[p].events)
    /\ net[p].get = 0 /\ net[p].put = 0 /\ net[p].append = 0
    /\ net[p].mail = 0 /\ net[p].sms = 0

\* C5: a run invokes phaseResearch at most 5 times and stops looping at the
\* first attempt that returns a lead; when 5 attempts returned none it
\* reports 'No leads with contact info after 5 tries' and invokes neither
\* phaseBuild nor the publish, the log append or a send.
C5_ResearchLoopBounded ==
    \A p \in Procs :
        /\ Count(run[p].events, "research") <= 5
        /\ run[p].hasBiz =>
            /\ run[p].pc \notin {"research", "research_wait"}
            /\ run[p].research.hasData
            /\ Count(run[p].events, "research") = run[p].attempt
        /\ (~run[p].hasBiz /\ run[p].pc \notin {"idle", "research", "research_wait"}
            /\ ~run[p].config.isNull) =>
            /\ Exhausted(run[p])
            /\ run[p].toast
                 = <<"No leads with contact info after ", "5", " tries. Try again later.">>
            /\ NothingAfterResearch(p)
        /\ (~run[p].hasBiz /\ run[p].pc \in {"research", "research_wait"}) =>
            NothingAfterResearch(p)

C5_Witness ==
    \E p \in Procs :
        /\ Exhausted(run[p])
        /\ run[p].toast = NoLeadsToast
        /\ net[p].llm >= 5

\* C6: the failure reported when the 5 attempts failed because of errors of
\* the generation API is distinct from the one reported when no attempt
\* produced a usable contact (which is the toast 'No leads with contact info
\* after 5 tries. Try again later.').
C6_ApiExhaustionReportedDistinctly ==
    \A p \in Procs :
        (Exhausted(run[p]) /\ run[p].causes = {"api"}) =>
            run[p].toast
                # <<"No leads with contact info after ", "5", " tries. Try again later.">>

\* the rank of a phase in the order of the stages
Rank(phase) ==
    CASE phase = "research" -> 1
      [] phase = "build" -> 2
      [] phase = "log" -> 3
      [] phase = "outreach" -> 4

NoSend(p) == net[p].mail = 0 /\ net[p].sms = 0 /\ Count(run[p].events, "outreach") = 0

\* C7: the stages of a run occur in the order Researching, Building,
\* Publishing+Log, Outreaching, the last three at most once each; after a
\* failure of Building there is no GET or PUT, no log row and no send; after
\* a failure of Publishing there is no log row and no send.
C7_StagesInOrderFailuresTerminal ==
    \A p \in Procs :
        LET r == run[p]
        IN /\ \A i, j \in 1..Len(r.events) : i < j => Rank(r.events[i]) <= Rank(r.events[j])
           /\ \A ph \in {"build", "log", "outreach"} : Count(r.events, ph) <= 1
           /\ Truthy(r.build.error) =>
                /\ r.pc = "done"
                /\ Count(r.events, "log") = 0
                /\ net[p].get = 0 /\ net[p].put = 0 /\ net[p].append = 0
                /\ NoSend(p)
           /\ Truthy(r.log.error) =>
                /\ r.pc = "done"
                /\ net[p].append = 0
                /\ NoSend(p)
           /\ (r.pc = "log_wait" /\ gh[p].pc = "done" /\ ~gh[p].result.success) =>
                net[p].append = 0 /\ NoSend(p)

\* a run whose page failed validation, ended after its Building stage
C7_Witness ==
    \E p \in Procs :
        /\ run[p].pc = "done"
        /\ run[p].build.error = <<"Generated HTML failed validation. Try again.">>
        /\ run[p].toast = run[p].build.error
        /\ Count(run[p].events, "build") = 1

----
\* C11 to C13: what phaseResearch accepts as a lead.

ResearchDone == unit.fn = "phaseResearch"

\* what the description of an answer says it gives
Gives(x, i) == x.form[i] # "absent"

GivesRequired(x) == \A i \in {1, 2, 4, 12} : Gives(x, i)

GivesEmail(x) == Gives(x, 6) /\ isValidEmail(x.val[6])

GivesPhone(x) == Gives(x, 7) /\ isValidPhone(x.val[7])

\* C11: phaseResearch returns a lead exactly when the answer has the required
\* fields and an email or a phone that passes isValidEmail / isValidPhone;
\* otherwise it returns data null with an error, the loop goes to its next
\* attempt, and only a lead with such a contact is handed to the build phase.
C11_LeadOnlyWithContact ==
    ResearchDone =>
        LET x == unit.arg
            r == unit.out.research
            n == unit.out.next
        IN /\ r.hasData <=> (GivesRequired(x) /\ (GivesEmail(x) \/ GivesPhone(x)))
           /\ r.hasData =>
                /\ r.error = Null
                /\ isValidEmail(r.data.target_email) \/ isValidPhone(r.data.target_phone)
           /\ ~r.hasData =>
                /\ Truthy(r.error)
                /\ r.data = NoBiz
                /\ n.pc = "research" /\ n.attempt = 2 /\ ~n.hasBiz
           /\ n.pc = "build" =>
                /\ n.hasBiz
                /\ n.biz = r.data
                /\ isValidEmail(n.biz.target_email) \/ isValidPhone(n.biz.target_phone)

\* an answer with every required field and neither contact was turned down
C11_Witness ==
    /\ ResearchDone
    /\ GivesRequired(unit.arg)
    /\ Gives(unit.arg, 6) /\ Gives(unit.arg, 7)
    /\ ~unit.out.research.hasData
    /\ unit.out.research.error =
         <<"No email or phone found for \"">> \o unit.arg.val[1] \o <<"\". Retrying...">>
    /\ unit.out.next.pc = "research"

\* C12: the channel of a lead is 'email' whenever its email can be used, also
\* when its phone can be used too, and 'sms' exactly when the email cannot and
\* the phone can; what the answer says about a channel plays no part.
C12_ChannelFromContacts ==
    (ResearchDone /\ unit.out.research.hasData) =>
        LET x == unit.arg
            channel == unit.out.research.data.channel
        IN /\ channel \in {S_email, S_sms}
           /\ channel = S_email <=> GivesEmail(x)
           /\ channel = S_sms <=> (~GivesEmail(x) /\ GivesPhone(x))

\* email and phone both usable, the answer itself naming 'sms': channel 'email'
C12_Witness ==
    /\ ResearchDone
    /\ unit.arg \in ChannelInputs
    /\ GivesEmail(unit.arg) /\ GivesPhone(unit.arg)
    /\ unit.out.research.hasData
    /\ unit.out.research.data.channel = S_email

\* non-empty, only a-z, 0-9 and '-', no hyphen first or last
SlugWellFormed(s) ==
    /\ s # Empty
    /\ \A i \in DOMAIN s : s[i] \in Range(LowerLetters) \cup DigitChars \cup {"-"}
    /\ s[1] # "-"
    /\ s[Len(s)] # "-"

\* C13: the slug of every lead phaseResearch accepts, and the key phaseLog
\* publishes it under, is non-empty, lowercase, made of a-z, 0-9 and '-' only,
\* without a hyphen first or last, whether the answer gave it or not.
C13_SlugNormalized ==
    (ResearchDone /\ unit.out.research.hasData) =>
        /\ SlugWellFormed(unit.out.research.data.slug)
        /\ SlugWellFormed(unit.out.key)

----
\* C14 and C15: a run whose send fails, and a run in review mode.

\* the run of p has ended with phaseOutreach's result
OutreachEnded(p) ==
    /\ run[p].pc = "done"
    /\ run[p].events # <<>>
    /\ run[p].events[Len(run[p].events)] = "outreach"

\* the row phaseLog appended in the run of p
RunRow(p) == sheet.rows[run[p].log.rowNumber - 1]

Unsent(row) == row.Status = <<"Review Needed">> /\ row.Sent_Date = Empty

\* C14: a send that fails ends the run with the failure reported
\* ('Deployed but send failed: ...') and not as an exception; the page
\* published under the lead's slug stays in the repository, and the row the run
\* logged keeps Status 'Review Needed' and an empty Sent_Date.
C14_SendFailureKeepsPublishAndRow ==
    \A p \in Procs :
        (OutreachEnded(p) /\ ~run[p].outreach.sent) =>
            /\ Truthy(run[p].outreach.error)
            /\ run[p].toast = <<"Deployed but send failed: ">> \o run[p].outreach.error
            /\ ~run[p].raised
            /\ run[p].log.error = Null
            /\ \E f \in store :
                 /\ f.path = FilePath(LogSlug(run[p].biz))
                 /\ f.content = run[p].build.html
            /\ run[p].log.rowNumber - 1 \in DOMAIN sheet.rows
            /\ Unsent(RunRow(p))
            /\ RunRow(p).Business_Name = run[p].biz.business_name

\* a run whose request to Twilio was made and turned down
C14_Witness ==
    \E p \in Procs :
        /\ OutreachEnded(p)
        /\ ~run[p].outreach.sent
        /\ net[p].sms = 1
        /\ sms = <<>>
        /\ Unsent(RunRow(p))

\* C15: a run with AUTO_SEND off makes no email and no SMS request, the row
\* it logged keeps Status 'Review Needed' and an empty Sent_Date, and
\* phaseOutreach, were it called with the run's lead, returns sent false and
\* error null without sending or writing anything.
C15_ReviewModeSendsNothing ==
    \A p \in Procs :
        (run[p].pc # "idle" /\ ~run[p].config.isNull /\ ~run[p].config.autoSend) =>
            /\ net[p].mail = 0 /\ net[p].sms = 0
            /\ run[p].log.rowNumber > 0 => Unsent(RunRow(p))
            /\ run[p].outreach = NoOutreach
            /\ (run[p].pc = "done" /\ run[p].log.rowNumber > 0) =>
                 \A env \in SendOutcomes :
                     LET r == phaseOutreach(run[p].config, run[p].biz, run[p].log,
                                            sheet.rows, env)
                     IN /\ r.out = [sent |-> FALSE, error |-> Null]
                        /\ r.eff.rows = sheet.rows
                        /\ r.eff.mail = <<>> /\ r.eff.sms = <<>>
                        /\ r.eff.mailRequests = 0 /\ r.eff.smsRequests = 0

\* a run in review mode that published and logged its lead
C15_Witness ==
    \E p \in Procs :
        /\ run[p].pc = "done"
        /\ ~run[p].config.isNull /\ ~run[p].config.autoSend
        /\ run[p].log.rowNumber > 0
        /\ Unsent(RunRow(p))
        /\ run[p].toast = <<"Done! ">> \o run[p].biz.business_name \o <<" (">>
                           \o contactInfo(run[p].biz) \o <<") - review in sheet">>

----
\* C16 to C18: sends by phaseOutreach and by sendAllPending.

BatchRunning == batch.pc \in {"loop", "done"} /\ ~batch.config.isNull

\* the rows of data the batch called sendSmsMessage for
SmsTried == {k \in DOMAIN batch.attempts : batch.attempts[k] > 0 /\ batch.data[k].Channel = S_sms}

BatchFailure(k, error) ==
    <<"Failed (">> \o S_sms \o <<") row ">> \o NumToString(k + 1) \o <<": ">> \o error

\* C16: with Twilio not configured a send by SMS makes no request, returns
\* the error 'Twilio not configured...', which no send with Twilio configured
\* returns, and is reported as a failure: the run toasts 'Deployed but send
\* failed: ...' and leaves its row unsent; the batch counts the row as failed,
\* logs the error for it and leaves it unsent.
C16_UnconfiguredSmsFailsExplicitly ==
    /\ \A p \in Procs :
        (OutreachEnded(p) /\ run[p].biz.channel = S_sms) =>
            IF run[p].config.twilioEnabled
            THEN run[p].outreach.error # TwilioNotConfigured
            ELSE /\ ~run[p].outreach.sent
                 /\ run[p].outreach.error = TwilioNotConfigured
                 /\ net[p].sms = 0
                 /\ sms = <<>>
                 /\ run[p].toast = <<"Deployed but send failed: ">> \o TwilioNotConfigured
                 /\ Unsent(RunRow(p))
    /\ (BatchRunning /\ ~batch.config.twilioEnabled) =>
        /\ batch.smsRequests = 0
        /\ batch.failCount = Len(batch.errors)
        /\ batch.failCount >= Cardinality(SmsTried)
        /\ \A k \in SmsTried :
            /\ sheet.rows[k] = batch.data[k]
            /\ Unsent(sheet.rows[k])
            /\ \E j \in DOMAIN batch.errors :
                 batch.errors[j] = BatchFailure(k, TwilioNotConfigured)
    /\ (BatchRunning /\ batch.config.twilioEnabled) =>
        \A k \in SmsTried, j \in DOMAIN batch.errors :
            batch.errors[j] # BatchFailure(k, TwilioNotConfigured)

\* a batch without Twilio that has come to its end with an SMS row it tried
C16_Witness ==
    /\ batch.pc = "done"
    /\ ~batch.config.isNull /\ ~batch.config.twilioEnabled
    /\ SmsTried # {}
    /\ batch.failCount > 0
    /\ batch.smsRequests = 0

\* C17: when sendAllPending has gone through its rows, every row that was
\* 'Review Needed' has had exactly one send attempted for it, and every other
\* row none, and is as it was.
C17_EveryPendingRowAttemptedOnce ==
    (batch.pc = "done" /\ batch.data # <<>>) =>
        \A k \in DOMAIN batch.data :
            IF batch.data[k].Status = <<"Review Needed">>
            THEN batch.attempts[k] = 1
            ELSE batch.attempts[k] = 0 /\ sheet.rows[k] = batch.data[k]

\* the last message handed to Gmail or accepted by Twilio in this step, if any
MailedTo(row) ==
    /\ Len(mail') = Len(mail) + 1
    /\ mail'[Len(mail')].to = row.Target_Email

TextedTo(row) ==
    /\ Len(sms') = Len(sms) + 1
    /\ sms'[Len(sms')].To = normalizePhone(row.Target_Phone)

\* C18: a step changes the Status or the Sent_Date of a row only from 'Review
\* Needed' to 'Sent' with Sent_Date set to the time of the step, and only
\* together with a send to that row's recipient that succeeded; the row's other
\* cells stay, no row is removed, and a 'Sent' row is never changed.
C18_SentOnlyBySuccessfulSend ==
    [][\A k \in DOMAIN sheet.rows :
         /\ k \in DOMAIN sheet'.rows
         /\ sheet'.rows[k] # sheet.rows[k] =>
              /\ sheet.rows[k].Status = <<"Review Needed">>
              /\ sheet'.rows[k] = [sheet.rows[k] EXCEPT !.Status = <<"Sent">>, !.Sent_Date = Now]
              /\ MailedTo(sheet.rows[k]) \/ TextedTo(sheet.rows[k])]_vars

\* a batch that has marked a row as sent and has left a row that failed
C18_Witness ==
    /\ batch.pc = "done"
    /\ batch.sentCount = 1
    /\ batch.failCount = 1
    /\ \E k \in DOMAIN batch.data :
         /\ batch.data[k].Status = <<"Review Needed">>
         /\ sheet.rows[k].Status = <<"Sent">>
         /\ sheet.rows[k].Sent_Date = Now
    /\ \E k \in DOMAIN batch.data : batch.attempts[k] = 1 /\ Unsent(sheet.rows[k])

----
\* C19 and C20: extractBusinessData.

ExtractDone == unit.fn = "extractBusinessData"

\* the value of field i of the answer x describes, its markers being well formed
Stated(x, i) ==
    CASE x.form[i] = "absent" -> Empty
      [] x.form[i] = "nested" -> x.val[i] \o <<"<", "/", "b", ">">> \o x.val[i]
      [] OTHER -> x.val[i]

\* C19: for an answer in which every field is given once as <LABEL>value</LABEL>
\* or not at all, extractBusinessData returns an object with the twelve fields,
\* each the value of its label without surrounding whitespace, '' when the
\* label is absent.
C19_FieldsTrimmedOrEmpty ==
    (ExtractDone /\ \A i \in 1..NumFields : unit.arg.form[i] \in WellFormed) =>
        /\ DOMAIN unit.out = {FieldNames[i] : i \in 1..NumFields}
        /\ \A i \in 1..NumFields : unit.out[FieldNames[i]] = Stated(unit.arg, i)

\* an answer with a field whose value is surrounded by whitespace
C19_Witness ==
    /\ ExtractDone
    /\ \A i \in 1..NumFields : unit.arg.form[i] \in WellFormed
    /\ \E i \in 1..NumFields :
         /\ unit.arg.form[i] = "padded"
         /\ unit.out[FieldNames[i]] = unit.arg.val[i]
         /\ unit.out[FieldNames[i]] # Empty

\* C20: a field whose closing marker has another or a shortened name is
\* returned as the trimmed text between its opening marker and that closing
\* marker, which for a field without a closing marker of its own is the next
\* field's; a field that has its own closing marker is returned up to that
\* marker, also when a closing marker of another name comes before it.
C20_LenientOnlyAfterStrict ==
    ExtractDone =>
        \A i \in 1..NumFields :
            unit.out[FieldNames[i]] =
                CASE unit.arg.form[i] \in Lenient -> unit.arg.val[i]
                  [] unit.arg.form[i] = "unclosed" ->
                        unit.arg.val[i] \o <<"\n">> \o OpenTag(Labels[LabelKeys[i + 1]])
                        \o unit.arg.val[i + 1]
                  [] OTHER -> Stated(unit.arg, i)

\* a field closed by a shortened marker, followed by a field whose value
\* holds a closing marker of another name
C20_Witness ==
    /\ ExtractDone
    /\ \E i \in 1..(NumFields - 1) :
         /\ unit.arg.form[i] = "truncated"
         /\ unit.arg.form[i + 1] = "nested"
         /\ unit.out[FieldNames[i]] = unit.arg.val[i]
         /\ unit.out[FieldNames[i + 1]] = Stated(unit.arg, i + 1)

----
\* C21: validateBusinessData.

ValidateDone == unit.fn = "validateBusinessData"

\* the names validateBusinessData reported
Reported == {unit.out.validation.missing[k] : k \in DOMAIN unit.out.validation.missing}

\* the answer gives no value for field i
Lacks(x, i) == x.form[i] = "absent" \/ x.val[i] = Empty

\* C21: validateBusinessData reports as missing exactly those of business_name,
\* niche, area and email_draft whose extracted value is empty, each once, and
\* valid is true exactly when it reports none; the contacts and the other
\* fields of the answer have no part in it.
C21_MissingExactlyEmptyRequired ==
    ValidateDone =>
        /\ Reported = {f \in {"business_name", "niche", "area", "email_draft"} :
                          unit.out.data[f] = Empty}
        /\ Reported = {FieldNames[i] : i \in {i \in {1, 2, 4, 12} : Lacks(unit.arg, i)}}
        /\ Len(unit.out.validation.missing) = Cardinality(Reported)
        /\ unit.out.validation.valid <=> unit.out.validation.missing = <<>>

\* an answer without contacts and without a niche, its area left blank
C21_Witness ==
    /\ ValidateDone
    /\ unit.arg.form[6] = "absent" /\ unit.arg.form[7] = "absent"
    /\ unit.out.data.target_email = Empty /\ unit.out.data.target_phone = Empty
    /\ unit.arg.form[2] = "absent" /\ unit.arg.val[4] = Empty
    /\ unit.out.validation.missing = <<"niche", "area">>
    /\ ~unit.out.validation.valid

----
\* C22 to C24: the contact helpers.

\* the answers the specification lists as standing for "not found"
NotFoundWords ==
    {<<"n", "o", " ", "e", "m", "a", "i", "l", " ", "f", "o", "u", "n", "d">>,
     <<"n", "o", "n", "e">>,
     <<"n", "/", "a">>,
     <<"u", "n", "k", "n", "o", "w", "n">>}

\* s is empty or is one of these words, whatever its case
NotFound(s) == s = Empty \/ ToLowerCase(s) \in NotFoundWords

IsDigitChar(c) == c \in DigitChars

\* C22: isValidEmail is false for the empty string and for 'no email found',
\* 'none', 'n/a' and 'unknown' in any case; for every other string it is true
\* exactly when the string contains '@'.
C22_EmailUsableIffAt ==
    unit.fn = "isValidEmail" =>
        unit.out = IF NotFound(unit.arg) THEN FALSE
                   ELSE \E i \in DOMAIN unit.arg : unit.arg[i] = "@"

\* 'None' is refused, and so is a text that is no such word and has no '@'
C22_Witness ==
    /\ unit.fn = "isValidEmail"
    /\ unit.arg \in {<<"N", "o", "n", "e">>, <<"a", "b", "c">>}
    /\ unit.out = FALSE

\* C23: isValidPhone is false for the empty string and for the same words in
\* any case; for every other string it is true exactly when the string has at
\* least 10 digits.
C23_PhoneUsableIffTenDigits ==
    unit.fn = "isValidPhone" =>
        unit.out = IF NotFound(unit.arg) THEN FALSE
                   ELSE Cardinality({i \in DOMAIN unit.arg : IsDigitChar(unit.arg[i])}) >= 10

\* a number of 7 digits is refused
C23_Witness ==
    /\ unit.fn = "isValidPhone"
    /\ unit.arg = <<"5", "5", "5", "-", "1", "2", "3", "4">>
    /\ unit.out = FALSE

----
\* C25: the message of a lead.

OccursAt(s, pat, i) == i + Len(pat) - 1 <= Len(s) /\ SubSeq(s, i, i + Len(pat) - 1) = pat

Occurs(s, pat) == \E i \in 1..Len(s) : OccursAt(s, pat, i)

RECURSIVE ReplaceAll(_, _, _)
\* s with every occurrence of pat replaced by the text by
ReplaceAll(s, pat, by) ==
    IF s = Empty THEN Empty
    ELSE IF OccursAt(s, pat, 1)
    THEN by \o ReplaceAll(SubSeq(s, Len(pat) + 1, Len(s)), pat, by)
    ELSE <<Head(s)>> \o ReplaceAll(Tail(s), pat, by)

\* m is the draft with the address appended to it
Appended(m, draft, url) ==
    /\ Len(m) >= Len(draft) + Len(url)
    /\ SubSeq(m, 1, Len(draft)) = draft
    /\ SubSeq(m, Len(m) - Len(url) + 1, Len(m)) = url

\* C25: the message written for a lead is the draft of the model with the
\* token [LIVE_DEMO_URL] replaced by the address of the page when the draft
\* has the token, and the draft with the address appended when it has not; it
\* holds the address and no token.
C25_DraftCarriesLiveUrl ==
    unit.fn = "phaseLog" =>
        LET draft == unit.arg.biz.email_draft
            m == unit.out.draftedMessage
        IN /\ IF Occurs(draft, LIVE_DEMO_URL)
              THEN m = ReplaceAll(draft, LIVE_DEMO_URL, unit.arg.liveUrl)
              ELSE Appended(m, draft, unit.arg.liveUrl)
           /\ Occurs(m, unit.arg.liveUrl)
           /\ ~Occurs(m, LIVE_DEMO_URL)

\* what the messages of phaseLog do have: the address of the page, no token,
\* and nothing of the draft
MessagesAreTemplates ==
    unit.fn = "phaseLog" =>
        /\ \A f \in {"plainText", "smsText"} :
             /\ Occurs(unit.out.msgs[f], unit.arg.liveUrl)
             /\ ~Occurs(unit.out.msgs[f], LIVE_DEMO_URL)
             /\ unit.out.msgs[f] =
                  LogMessages(unit.arg.config, [unit.arg.biz EXCEPT !.email_draft = Empty],
                              unit.arg.liveUrl, unit.arg.renderThrows)[f]
        /\ unit.out.draftedMessage \in {unit.out.msgs.plainText, unit.out.msgs.smsText}

----
\* C26: the page of a run and its row.

\* the run of p has ended and deployToGitHubPages, called by its phaseLog,
\* returned a success
PublishedByRun(p) ==
    /\ run[p].pc = "done"
    /\ Count(run[p].events, "log") = 1
    /\ pubLog # <<>>
    /\ pubLog[Len(pubLog)].result.success

\* C26: a run whose publish succeeded has appended a row for its lead with the
\* address of the page: no run ends with a page published and no row for it.
C26_PublishedPageHasRow ==
    \A p \in Procs :
        PublishedByRun(p) =>
            /\ run[p].log.rowNumber > 0
            /\ RunRow(p).Business_Name = run[p].biz.business_name
            /\ RunRow(p).Live_Pages_URL = pubLog[Len(pubLog)].result.liveUrl

\* a run whose phaseLog returned without an error has its row, and a run whose
\* publish succeeded and that has no row ended with 'Sheet write failed: ...'
PublishedPageHasRowOrError ==
    \A p \in Procs :
        PublishedByRun(p) =>
            IF run[p].log.error = Null
            THEN /\ run[p].log.rowNumber > 0
                 /\ RunRow(p).Business_Name = run[p].biz.business_name
                 /\ RunRow(p).Live_Pages_URL = pubLog[Len(pubLog)].result.liveUrl
            ELSE /\ run[p].log.rowNumber = 0
                 /\ run[p].toast = <<"Sheet write failed: ", "Exception: Service error">>

----
\* C27: getConfig, and a run or a batch without a configuration.

\* the property is set to a value that is not empty
IsSet(v) == v # Null /\ v # Empty

\* the property is set and has more than whitespace
IsSetTrimmed(v) == v # Null /\ \E i \in DOMAIN v : ~IsSpace(v[i])

\* the provider is one of the four, in any case, whitespace around it ignored
Supported(v) == v # Null /\ Trim(ToLowerCase(v)) \in {S_openai, S_anthropic, S_gemini, S_xai}

ConfigDone == unit.fn = "getConfig"

\* nothing was requested of GitHub, of a provider, of Gmail or of Twilio, and
\* no row of the sheet was added or changed
NothingDone ==
    /\ store = {} /\ pubLog = <<>> /\ mail = <<>> /\ sms = <<>>
    /\ \A p \in Procs : net[p] = NoRequests /\ llm[p] = LLMIdle /\ gh[p] = GHIdle
    /\ batch.mailRequests = 0 /\ batch.smsRequests = 0
    /\ sheet \in PendingSheet \cup {[headers |-> FALSE, rows |-> <<>>]}

\* C27: getConfig returns a configuration exactly when the provider is
\* supported and LLM_API_KEY and GITHUB_PAT are set, whatever the Twilio
\* properties are, and twilioEnabled is true exactly when the three Twilio
\* properties are set to more than whitespace; when it returns null the run or
\* the batch ends at once, without a request and without a write to the sheet.
C27_TwilioOptionalConfigRequired ==
    ConfigDone =>
        /\ ~unit.out.isNull <=>
              /\ Supported(unit.arg.LLM_PROVIDER)
              /\ IsSet(unit.arg.LLM_API_KEY)
              /\ IsSet(unit.arg.GITHUB_PAT)
        /\ ~unit.out.isNull =>
              unit.out.twilioEnabled <=>
                  /\ IsSetTrimmed(unit.arg.TWILIO_ACCOUNT_SID)
                  /\ IsSetTrimmed(unit.arg.TWILIO_AUTH_TOKEN)
                  /\ IsSetTrimmed(unit.arg.TWILIO_PHONE)
        /\ unit.out.isNull =>
              /\ \A p \in Procs : run[p].pc \in {"idle", "done"} /\ run[p].toast = Null
              /\ batch.pc \in {"idle", "done"} /\ batch.toast = Null
              /\ NothingDone
        /\ \A p \in Procs : run[p].pc = "research" => run[p].config = unit.out
        /\ batch.pc = "loop" => batch.config = unit.out

\* a batch that found Twilio half configured and sent the email of a row
C27_Witness ==
    /\ ConfigDone
    /\ unit.arg.TWILIO_ACCOUNT_SID = Null
    /\ IsSetTrimmed(unit.arg.TWILIO_AUTH_TOKEN)
    /\ ~unit.out.isNull /\ ~unit.out.twilioEnabled
    /\ batch.pc = "done"
    /\ batch.sentCount = 1

\* a run and a batch that found no GITHUB_PAT, Twilio being configured
ConfigMissingEndsAtOnce ==
    /\ ConfigDone
    /\ unit.arg.GITHUB_PAT = Null
    /\ \A k \in {"TWILIO_ACCOUNT_SID", "TWILIO_AUTH_TOKEN", "TWILIO_PHONE"} :
         IsSetTrimmed(unit.arg[k])
    /\ unit.out.isNull
    /\ batch.pc = "done"
    /\ runs = 1

----
\* C28: the requests of one call of deployToGitHubPages.

\* the payload of a create and of an update
IsCreate(payload, slug) ==
    payload.sha = Null /\ payload.message = <<"Add demo for ">> \o slug

IsUpdate(payload, slug, sha) ==
    payload.sha = sha /\ sha # Null /\ payload.message = <<"Update demo for ">> \o slug

\* C28: a call makes its GET first and once, and at most one PUT, after the
\* GET; after a GET answered 404 the PUT carries no sha, after a GET answered
\* 200 it carries the sha that GET returned, which is the sha of the file at
\* the key when the repository served the GET.
C28_OneGetThenAtMostOnePut ==
    \A p \in Procs :
        LET a == gh[p]
            atKey == StoreGet(store, FilePath(a.slug))
        IN /\ a.pc # "idle" => net[p].get = a.gets /\ net[p].put = Len(a.puts)
           /\ a.pc = "get" => a.gets = 0 /\ a.puts = <<>>
           /\ a.pc = "put" =>
                /\ a.gets = 1 /\ a.puts = <<>>
                /\ a.getCode \in {200, 404}
                /\ a.getCode = 404 => IsCreate(a.payload, a.slug)
                /\ a.getCode = 200 => a.payload.sha = a.sha
                /\ (a.getCode = 200 /\ ~a.fault) =>
                     /\ atKey.code = 200
                     /\ IsUpdate(a.payload, a.slug, atKey.sha)
           /\ a.pc = "done" =>
                /\ a.gets = 1 /\ Len(a.puts) <= 1
                /\ Len(a.puts) = 1 =>
                     /\ a.puts[1] = a.payload
                     /\ a.getCode \in {200, 404}
                     /\ a.getCode = 404 => IsCreate(a.puts[1], a.slug)
                     /\ a.getCode = 200 => a.puts[1].sha = a.sha

\* a call that found the file of an earlier call and replaced it
C28_Witness ==
    \E p \in Procs :
        /\ gh[p].pc = "done"
        /\ gh[p].gets = 1 /\ Len(gh[p].puts) = 1
        /\ gh[p].getCode = 200 /\ gh[p].putCode = 200
        /\ IsUpdate(gh[p].puts[1], gh[p].slug, gh[p].sha)
        /\ Len(pubLog) = 2
        /\ pubLog[1].getCode = 404 /\ IsCreate(pubLog[1].puts[1], pubLog[1].slug)
        /\ gh[p].sha = BlobSha(pubLog[1].html)

----
\* C29: two calls of deployToGitHubPages for one key at the same time.

\* both processes have made their GET for the same key, with different
\* content, and neither has made its PUT
BothRead ==
    /\ \A p \in Procs : gh[p].pc = "put" /\ ~gh[p].fault
    /\ gh[1].slug = gh[2].slug
    /\ gh[1].html # gh[2].html

\* what a GET of the key would have returned when the PUT of call e arrived
AtPut(e) ==
    IF e.before = {} THEN [code |-> 404, sha |-> Null]
    ELSE [code |-> 200, sha |-> (CHOOSE f \in e.before : TRUE).sha]

\* call e made its GET and its PUT, both served by the repository, and the
\* key changed in between: the PUT of another call came after the GET of e
\* and before its PUT
Overtaken(e) ==
    /\ ~e.fault
    /\ Len(e.puts) = 1
    /\ AtPut(e) # [code |-> e.getCode, sha |-> e.puts[1].sha]

\* the call reported a success and its content was not at the key when its
\* PUT was answered
NotLive(e) == e.result.success /\ e.after # {Published(e.slug, e.html)}

----
\* C30: the sleeps of withRetry.

\* attempt k of the activation a failed: fn() threw, or returned an error
FailedAttempt(a, k) == a.log[k].threw \/ Truthy(a.log[k].result.error)

\* the attempts made so far that are followed by a sleep
Slept(a) == {k \in 1..Len(a.log) : FailedAttempt(a, k) /\ k < MAX_RETRIES}

\* C30: at every point of a call of withRetry, and once it has returned,
\* there has been one sleep for each failed attempt before the 3rd, whether
\* it threw or returned an error, and no other; the sleep after attempt k
\* lasted BASE_DELAY_MS * 2^(k-1): 1000 ms before attempt 2, 2000 ms before
\* attempt 3. No sleep follows the failure of attempt 3 or a success.
C30_BackoffSleeps ==
    \A p \in Procs :
        LET a == llm[p]
        IN /\ Len(a.sleeps) = Cardinality(Slept(a))
           /\ \A k \in 1..Len(a.sleeps) : a.sleeps[k] = BASE_DELAY_MS * 2^(k - 1)
           /\ a.sleeps \in {<<>>, <<1000>>, <<1000, 2000>>}
           /\ a.pc = "attempt" => Len(a.sleeps) = a.attempt - 1
           /\ (a.pc = "done" /\ Len(a.log) > 0 /\ ~FailedAttempt(a, Len(a.log)))
                => Len(a.sleeps) = Len(a.log) - 1

\* a call that has returned after three failed attempts, the first thrown,
\* the second a returned error: it slept 1000 ms and 2000 ms, and not after
\* the third
C30_Witness ==
    \E p \in Procs :
        /\ llm[p].pc = "done"
        /\ Len(llm[p].log) = MAX_RETRIES
        /\ llm[p].log[1].threw
        /\ ~llm[p].log[2].threw /\ Truthy(llm[p].log[2].result.error)
        /\ FailedAttempt(llm[p], 3)
        /\ llm[p].sleeps = <<1000, 2000>>

\* a call that returned the result of its second attempt, after one sleep
SleptOnceThenReturned ==
    \E p \in Procs :
        /\ llm[p].pc = "done"
        /\ Len(llm[p].log) = 2
        /\ ~FailedAttempt(llm[p], 2)
        /\ llm[p].sleeps = <<1000>>

----
\* C31: the pauses of sendAllPending.

\* the rows of the sheet for which the activation has tried a send, in the
\* order of the loop
TriedRows == {k + 1 : k \in {j \in DOMAIN batch.attempts : batch.attempts[j] > 0}}

\* C31: at every point of an activation of sendAllPending, each row for
\* which a send was tried, whether the send succeeded or failed, has been
\* followed by one pause of 2000 ms, before the loop went to the next row;
\* the pauses are in the order of the rows, and no pause was made for a row
\* that was skipped.
C31_PauseAfterEverySend ==
    /\ {batch.sleeps[j].row : j \in DOMAIN batch.sleeps} = TriedRows
    /\ Len(batch.sleeps) = Cardinality(TriedRows)
    /\ Len(batch.sleeps) = batch.sentCount + batch.failCount
    /\ \A j \in DOMAIN batch.sleeps :
        /\ batch.sleeps[j].ms = 2000
        /\ batch.sleeps[j].row <= batch.i
        /\ j > 1 => batch.sleeps[j - 1].row < batch.sleeps[j].row
    /\ batch.pc = "loop" => Len(batch.sleeps) + batch.skipCount = batch.i - 1

\* an activation that ended after a send that failed and a send that
\* succeeded, with a pause after each
C31_Witness ==
    /\ batch.pc = "done"
    /\ batch.failCount = 1 /\ batch.sentCount = 1
    /\ batch.sleeps = <<[row |-> 2, ms |-> 2000], [row |-> 3, ms |-> 2000]>>

\* an activation that skipped a row and tried the next: one pause
SkippedRowNoPause ==
    /\ batch.pc = "done"
    /\ batch.skipCount = 1
    /\ batch.sleeps = <<[row |-> 3, ms |-> 2000]>>

----
\* C32: the messages of phaseLog.

MessagesDone == unit.fn = "phaseLog"

\* C32: for a lead of either channel, phaseLog has the three messages after
\* its try/catch: the plain one and the short one are not empty and hold the
\* address of the page; when a builder threw they are 'Demo: ' followed by
\* the address and the rich one is empty, otherwise the rich one holds the
\* address too and the three differ. The message written to the row is the
\* short one when the channel is 'sms' and the plain one otherwise.
C32_ThreeMessagesWithLiveUrl ==
    MessagesDone =>
        LET x == unit.arg
            m == unit.out.msgs
            d == unit.out.draftedMessage
        IN /\ DOMAIN m = {"emailHtml", "plainText", "smsText"}
           /\ m.plainText # Empty /\ Occurs(m.plainText, x.liveUrl)
           /\ m.smsText # Empty /\ Occurs(m.smsText, x.liveUrl)
           /\ x.renderThrows =>
                /\ m.plainText = <<"Demo: ">> \o x.liveUrl
                /\ m.smsText = <<"Demo: ">> \o x.liveUrl
                /\ m.emailHtml = Empty
           /\ ~x.renderThrows =>
                /\ m.emailHtml # Empty /\ Occurs(m.emailHtml, x.liveUrl)
                /\ m.plainText # m.smsText
                /\ d = m.smsText <=> x.biz.channel = S_sms
           /\ d = IF x.biz.channel = S_sms THEN m.smsText ELSE m.plainText

\* a lead reached by mail whose builders threw: the row gets the fallback
C32_Witness ==
    /\ MessagesDone
    /\ unit.arg.renderThrows
    /\ unit.arg.biz.channel = S_email
    /\ unit.arg.liveUrl # Empty
    /\ unit.out.draftedMessage = <<"Demo: ">> \o unit.arg.liveUrl

\* a lead reached by SMS whose builders returned: the row gets the short one
ShortMessageForSms ==
    /\ MessagesDone
    /\ ~unit.arg.renderThrows
    /\ unit.arg.biz.channel = S_sms
    /\ unit.out.draftedMessage = unit.out.msgs.smsText
    /\ unit.out.draftedMessage # unit.out.msgs.plainText

----
\* C33: the recipient of an SMS.

\* '+1' followed by exactly 10 digits
NorthAmericanE164(s) ==
    /\ Len(s) = 12
    /\ s[1] = "+" /\ s[2] = "1"
    /\ \A i \in 3..12 : IsDigitChar(s[i])

\* C33: for a phone that isValidPhone accepts, the To of the request to
\* Twilio is '+1' followed by exactly 10 digits.
C33_AcceptedPhoneIsE164 ==
    (unit.fn = "sendSmsMessage" /\ unit.out.accepted) => NorthAmericanE164(unit.out.To)

\* what holds instead: To is '+' followed by the digits of the phone, 10 or
\* more, with '1' before them when there are exactly 10; it has the form
\* '+1' and 10 digits exactly when the phone has 10 digits, or 11 the first
\* of which is '1'
AcceptedPhoneIsPlusDigits ==
    (unit.fn = "sendSmsMessage" /\ unit.out.accepted) =>
        LET d == SelectSeq(unit.arg, IsDigitChar)
        IN /\ Len(d) >= 10
           /\ unit.out.To = <<"+">> \o (IF Len(d) = 10 THEN <<"1">> \o d ELSE d)
           /\ NorthAmericanE164(unit.out.To) <=> (Len(d) = 10 \/ (Len(d) = 11 /\ d[1] = "1"))

\* a North-American number with an extension: accepted, and sent to
\* '+555123456789'
ExtensionIsDialled ==
    /\ unit.fn = "sendSmsMessage"
    /\ unit.arg = <<"5", "5", "5", "-", "1", "2", "3", "-", "4", "5", "6", "7", " ", "x", "8", "9">>
    /\ unit.out.accepted
    /\ unit.out.To = <<"+", "5", "5", "5", "1", "2", "3", "4", "5", "6", "7", "8", "9">>

----
\* C34: runs and batches one after the other, on one sheet.

\* the number of messages this step handed to Gmail or had Twilio accept
SentNow == (Len(mail') + Len(sms')) - (Len(mail) + Len(sms))

\* the row, as an index of sheet.rows, that the invocation at work is about
\* to send for
TargetRow ==
    IF batch.pc = "loop" THEN batch.i
    ELSE IF \E p \in Procs : run[p].pc = "outreach"
    THEN run[CHOOSE p \in Procs : run[p].pc = "outreach"].log.rowNumber - 1
    ELSE 0

\* this step is a send that was tried and failed
FailedNow ==
    \/ batch'.failCount > batch.failCount
    \/ \E p \in Procs : /\ run[p].pc = "outreach" /\ run'[p].pc = "done"
                         /\ Truthy(run'[p].outreach.error)

\* the row has a recipient for its channel, as sendAllPending tests it
HasRecipient(row) ==
    LET channel == ToLowerCase(OrElse(row.Channel, S_email))
    IN \/ channel = S_email /\ isValidEmail(row.Target_Email)
       \/ channel = S_sms /\ isValidPhone(row.Target_Phone)

\* what a batch has done with the rows it has gone through: none tried twice,
\* a 'Sent' row skipped, a 'Review Needed' row with a recipient tried, and a
\* row whose send failed left as it was; the rows it has yet to go through
\* are in the sheet as it read them
BatchByStatus ==
    batch.pc \in {"loop", "done"} =>
        \A k \in DOMAIN batch.data :
            /\ batch.attempts[k] <= 1
            /\ batch.data[k].Status = <<"Sent">> => batch.attempts[k] = 0
            /\ (k < batch.i /\ batch.data[k].Status = <<"Review Needed">>
                           /\ HasRecipient(batch.data[k])) => batch.attempts[k] = 1
            /\ (batch.attempts[k] = 1 /\ sheet.rows[k].Status # <<"Sent">>)
                  => sheet.rows[k] = batch.data[k]
            /\ k >= batch.i => sheet.rows[k] = batch.data[k]

\* every message sent is for the row the invocation is at, which was 'Review
\* Needed' and is 'Sent' after the step, the other rows being as they were; a
\* 'Sent' row is never changed; a send that failed changes no row
OneSendPerRow ==
    /\ SentNow \in {0, 1}
    /\ \A k \in DOMAIN sheet.rows :
         sheet.rows[k].Status = <<"Sent">> => sheet'.rows[k] = sheet.rows[k]
    /\ SentNow = 1 =>
         /\ TargetRow \in DOMAIN sheet.rows
         /\ sheet.rows[TargetRow].Status = <<"Review Needed">>
         /\ sheet'.rows[TargetRow].Status = <<"Sent">>
         /\ MailedTo(sheet.rows[TargetRow]) \/ TextedTo(sheet.rows[TargetRow])
         /\ \A j \in DOMAIN sheet.rows \ {TargetRow} : sheet'.rows[j] = sheet.rows[j]
    /\ FailedNow => SentNow = 0 /\ sheet' = sheet

\* C34: with runs and batches one at a time, no row gets more than one send
\* that succeeded: a send that succeeds is for a 'Review Needed' row and
\* leaves it 'Sent' in the same step, a 'Sent' row is skipped by every batch
\* and never changed, and a row whose send failed stays 'Review Needed' and
\* is tried by the next batch.
C34_AtMostOneSuccessfulSend == []BatchByStatus /\ [][OneSendPerRow]_vars

\* a run whose mail failed, and the batch after it: the row of the run was
\* still 'Review Needed' when the batch read it, the batch sent it and marked
\* it; one message in all
C34_Witness ==
    /\ runs = 1 /\ net[1].mail = 1
    /\ batch.n = 1 /\ batch.pc = "done"
    /\ Len(batch.data) = 1
    /\ batch.data[1].Status = <<"Review Needed">>
    /\ batch.attempts = <<1>>
    /\ sheet.rows[1].Status = <<"Sent">>
    /\ Len(mail) = 1 /\ sms = <<>>

\* a second batch at its end, on two rows: the first was sent before it and
\* was skipped, the second was still 'Review Needed' and was sent now; two
\* messages in all
SentRowSkippedByLaterBatch ==
    /\ batch.n = 2 /\ batch.pc = "done"
    /\ Len(batch.data) = 2
    /\ batch.data[1].Status = <<"Sent">> /\ batch.data[1].Sent_Date = Now
    /\ batch.attempts = <<0, 1>>
    /\ batch.sentCount = 1
    /\ sheet.rows[2].Status = <<"Sent">>
    /\ Len(mail) + Len(sms) = 2

----
\* C35: a GET answered with a status other than 200 and 404.

\* the GET was answered, with a status that is neither 200 nor 404
OtherStatus(code) == code \notin {0, 200, 404}

\* the calls that have ended on such a GET made no PUT and returned the
\* failure that carries the status and the first 200 characters of the body
GetFailureReported ==
    /\ \A i \in 1..Len(pubLog) :
         LET e == pubLog[i]
         IN OtherStatus(e.getCode) =>
              /\ e.gets = 1 /\ e.puts = <<>> /\ e.putCode = 0
              /\ ~e.raised
              /\ e.result = [success |-> FALSE, liveUrl |-> Empty,
                             error |-> <<"GitHub GET failed (">> \o NumToString(e.getCode)
                                       \o <<"): ">> \o SubSeq(e.body, 1, Min(200, Len(e.body)))]
    /\ \A p \in Procs :
         OtherStatus(gh[p].getCode) => gh[p].pc = "done" /\ net[p].put = 0

\* the step in which such an answer comes ends the call and leaves the
\* repository as it was
GetFailureEndsCall ==
    \A p \in Procs :
        (gh[p].pc = "get" /\ gh'[p].pc # "get" /\ OtherStatus(gh'[p].getCode)) =>
            /\ gh'[p].pc = "done"
            /\ store' = store
            /\ Len(pubLog') = Len(pubLog) + 1
            /\ pubLog'[Len(pubLog')].after = FilesAt(store, FilePath(gh[p].slug))

\* C35: when the GET of deployToGitHubPages is answered with a status other
\* than 200 and 404, the call makes no PUT, returns success false with the
\* error 'GitHub GET failed (<status>): ' and the start of the body, and the
\* repository is as it was.
C35_OtherGetStatusEndsPublish == []GetFailureReported /\ [][GetFailureEndsCall]_vars

\* a GET answered 403 with a long body, the file being in the repository
C35_Witness ==
    \E i \in 1..Len(pubLog) :
        /\ pubLog[i].getCode = 403
        /\ Len(pubLog[i].body) > 200
        /\ pubLog[i].puts = <<>>
        /\ ~pubLog[i].result.success
        /\ pubLog[i].after # {}
        /\ pubLog[i].after \subseteq store

----
\* C36: the requests of a run to the provider.

\* the requests to the provider that phase 1 can have made when its loop is
\* at the given attempt: 3 for every attempt before it
ResearchBudget(attempt) == MAX_RETRIES * (attempt - 1)

\* C36: a run makes at most 15 requests to the provider in phase 1, 3 for
\* each of its at most 5 attempts, whatever the attempts failed for, and at
\* most 3 in phase 2, which it enters once: at most 18 in all.
C36_AtMostEighteenProviderCalls ==
    \A p \in Procs :
        LET r == run[p]
            inFlight == Len(llm[p].log)
        IN (r.pc # "idle" /\ ~r.config.isNull) =>
            /\ inFlight <= 3
            /\ Count(r.events, "build") <= 1
            /\ r.pc = "research" => net[p].llm <= ResearchBudget(r.attempt)
            /\ r.pc = "research_wait" =>
                 /\ r.attempt <= 5
                 /\ net[p].llm <= ResearchBudget(r.attempt) + inFlight
            /\ Count(r.events, "build") = 0 => net[p].llm <= 15
            /\ r.pc = "build" => r.attempt <= 5 /\ net[p].llm <= 3 * r.attempt
            /\ r.pc = "build_wait" => net[p].llm <= 3 * r.attempt + inFlight
            /\ net[p].llm <= 18

\* a run that made 15 requests in phase 1, the last of which gave a lead, and
\* 3 in phase 2
C36_Witness ==
    \E p \in Procs :
        /\ run[p].pc = "build_wait"
        /\ run[p].attempt = 5
        /\ Len(llm[p].log) = 3
        /\ net[p].llm = 18

----
\* C37: phase 4 of a run with AUTO_SEND.

\* the run of p has been through phaseOutreach with AUTO_SEND on
AutoSendDone(p) ==
    /\ run[p].pc = "done"
    /\ Count(run[p].events, "outreach") = 1
    /\ run[p].config.autoSend

\* C37: in a run with AUTO_SEND on, the lead that reaches phaseOutreach has
\* the channel phaseResearch gave it and a recipient for it that the
\* validator accepts; phaseOutreach does not return 'No valid contact for
\* channel', and calls the send function of that channel once: one message
\* handed to Gmail for 'email', and for 'sms' one request to Twilio, or the
\* refusal of sendSmsMessage when Twilio is not configured.
C37_ChannelAlwaysHasRecipient ==
    \A p \in Procs :
        /\ run[p].pc = "outreach" =>
             /\ run[p].biz.channel \in {S_email, S_sms}
             /\ run[p].biz.channel = S_email <=> isValidEmail(run[p].biz.target_email)
             /\ run[p].biz.channel = S_sms => isValidPhone(run[p].biz.target_phone)
        /\ AutoSendDone(p) =>
             LET r == run[p]
                 channel == r.biz.channel
             IN /\ r.outreach.error # <<"No valid contact for channel: ">> \o channel
                /\ r.outreach.sent \/ Truthy(r.outreach.error)
                /\ channel = S_email => net[p].mail = 1 /\ net[p].sms = 0
                /\ channel = S_sms =>
                     /\ net[p].mail = 0
                     /\ IF r.config.twilioEnabled THEN net[p].sms = 1
                        ELSE net[p].sms = 0 /\ r.outreach.error = TwilioNotConfigured

\* a run that found a lead with a phone only and sent it an SMS
C37_Witness ==
    \E p \in Procs :
        /\ AutoSendDone(p)
        /\ run[p].biz.channel = S_sms
        /\ ~isValidEmail(run[p].biz.target_email)
        /\ run[p].outreach.sent
        /\ net[p].sms = 1
        /\ Len(sms) = 1

----
\* C38: two runs on one sheet.

\* the row at a row number of the sheet is the one phaseLog wrote for the
\* lead of p
OwnRow(p, rowNumber) ==
    /\ rowNumber - 1 \in DOMAIN sheet.rows
    /\ LET row == sheet.rows[rowNumber - 1]
           biz == run[p].biz
       IN /\ row.Business_Name = biz.business_name
          /\ row.Slug = LogSlug(biz)
          /\ row.Target_Email = OrElse(biz.target_email, Empty)
          /\ row.Target_Phone = OrElse(biz.target_phone, Empty)
          /\ row.Channel = biz.channel
          /\ row.Live_Pages_URL = run[p].log.liveUrl

\* C38: for two runs on one sheet, in any interleaving, the row number that
\* phaseLog returns is that of the row it appended, and the row that
\* phaseOutreach marks 'Sent' is that row.
C38_RunMarksItsOwnRow ==
    \A p \in Procs :
        /\ (run[p].pc = "outreach" \/ (run[p].pc = "done" /\ run[p].log.rowNumber > 0))
             => OwnRow(p, run[p].log.rowNumber)
        /\ (run[p].pc = "done" /\ run[p].outreach.sent) =>
             /\ OwnRow(p, run[p].log.rowNumber)
             /\ sheet.rows[run[p].log.rowNumber - 1].Status = <<"Sent">>

\* the two runs appended their rows before either read the last row: both
\* hold the number of the row appended last, and the first run to send has
\* marked the row of the other lead, its own row staying 'Review Needed'
WrongRowMarked ==
    /\ run[1].biz # run[2].biz
    /\ run[1].pc = "done" /\ run[1].outreach.sent
    /\ run[1].log.rowNumber = run[2].log.rowNumber
    /\ ~OwnRow(1, run[1].log.rowNumber)
    /\ OwnRow(2, run[1].log.rowNumber)
    /\ sheet.rows[run[1].log.rowNumber - 1].Status = <<"Sent">>
    /\ OwnRow(1, run[1].log.rowNumber - 1)
    /\ sheet.rows[run[1].log.rowNumber - 2].Status = <<"Review Needed">>

\* what holds in every interleaving: the row number is that of a row of the
\* sheet, at or after the row the run appended
RowNumberAtOrAfterOwnRow ==
    \A p \in Procs :
        (run[p].pc \in {"outreach", "done"} /\ run[p].log.rowNumber > 0) =>
            \E n \in 2..run[p].log.rowNumber : OwnRow(p, n)

----
\* C39: termination.

\* a run or a batch is under way
Started == (\E p \in Solo : run[p].pc # "idle") \/ batch.pc = "loop"

\* the run or the batch has come to its end
Ended == (\E p \in Solo : run[p].pc = "done") \/ batch.pc = "done"

\* a behaviour has one invocation, so the one that has started is the one
\* that ends
OneInvocation ==
    /\ runs + batch.n <= 1
    /\ \A p \in Procs \ Solo : run[p].pc = "idle"
    /\ (\E p \in Solo : run[p].pc # "idle") => batch.n = 0
    /\ batch.pc # "idle" => runs = 0

\* a run at its end is in one of the ends the script has: no configuration,
\* no lead after 5 attempts, a failed build, a failed publish or log, or the
\* end of phase 4; a batch at its end has been through every row once
EndsAreEnds ==
    /\ \A p \in Procs :
         run[p].pc = "done" =>
            /\ ~run[p].raised
            /\ \/ run[p].config.isNull
               \/ Exhausted(run[p])
               \/ run[p].hasBiz /\ Truthy(run[p].build.error)
               \/ run[p].hasBiz /\ Truthy(run[p].log.error)
               \/ run[p].hasBiz /\ run[p].log.rowNumber > 0
            /\ Count(run[p].events, "research") <= MAX_ATTEMPTS
            /\ net[p].llm <= MAX_ATTEMPTS * MAX_RETRIES + MAX_RETRIES
    /\ (batch.pc = "done" /\ batch.data # <<>>) =>
         /\ batch.i = Len(batch.data) + 1
         /\ batch.sentCount + batch.skipCount + batch.failCount = Len(batch.data)
         /\ \A k \in DOMAIN batch.data : batch.attempts[k] <= 1

BatchEndedAfterTwoRows ==
    /\ batch.pc = "done"
    /\ Len(batch.data) = 2
    /\ batch.i = 3
    /\ batch.sentCount = 1

----
\* C40: a field without a closing marker of its own.

OpenDone == unit.fn = "extract"

RECURSIVE UpToClose(_, _)
\* the answer x from the opening marker of field k on, up to the first closing
\* marker of any name; found says that there is one
UpToClose(x, k) ==
    IF k > NumFields THEN [found |-> FALSE, text |-> Empty]
    ELSE CASE x.form[k] = "absent" -> UpToClose(x, k + 1)
           [] x.form[k] = "unclosed" ->
                LET rest == UpToClose(x, k + 1)
                IN [found |-> rest.found,
                    text |-> OpenTag(Labels[LabelKeys[k]]) \o x.val[k] \o <<"\n">>
                             \o rest.text]
           [] x.form[k] = "nested" ->
                [found |-> TRUE, text |-> OpenTag(Labels[LabelKeys[k]]) \o x.val[k]]
           [] OTHER ->
                [found |-> TRUE,
                 text |-> OpenTag(Labels[LabelKeys[k]]) \o Between(x.form[k], x.val[k])]

\* what lies between the opening marker of field i and the first closing
\* marker of any name after it
Span(x, i) ==
    IF x.form[i] = "unclosed"
    THEN LET rest == UpToClose(x, i + 1)
         IN [found |-> rest.found, text |-> x.val[i] \o <<"\n">> \o rest.text]
    ELSE [found |-> TRUE, text |-> Between(x.form[i], x.val[i])]

\* the value of a field without a closing marker of its own is what lies
\* between its opening marker and the first closing marker of any name,
\* trimmed, with the opening markers and values of the fields in between, and
\* '' when no closing marker follows
RunsToNextClose(i) ==
    unit.out.data[FieldNames[i]] =
        IF Span(unit.arg, i).found THEN Trim(Span(unit.arg, i).text) ELSE Empty

\* validateBusinessData reports a required field exactly when its value is ''
ReportedWhenEmpty(i) ==
    FieldNames[i] \in Range(RequiredFields) =>
        ((\E k \in DOMAIN unit.out.validation.missing :
             unit.out.validation.missing[k] = FieldNames[i])
         <=> unit.out.data[FieldNames[i]] = Empty)

\* C40: the value of a field that has its opening marker and no closing
\* marker of its own runs from the opening marker to the first closing marker
\* of any name, the opening markers and values of the fields in between
\* included; it is '' exactly when no closing marker follows or nothing but
\* whitespace lies before the first one, and a required field is reported
\* missing exactly then.
C40_OpenFieldRunsToNextClose ==
    OpenDone =>
        \A i \in 1..NumFields :
            unit.arg.form[i] \in NoOwnClose =>
                /\ RunsToNextClose(i)
                /\ ReportedWhenEmpty(i)
                /\ unit.out.data[FieldNames[i]] = Empty
                     <=> (~Span(unit.arg, i).found \/ Trim(Span(unit.arg, i).text) = Empty)

\* C40 as stated: such a field is '' only if no closing marker of any name
\* follows its opening marker.
C40_EmptyOnlyWithoutClose ==
    OpenDone =>
        \A i \in 1..NumFields :
            unit.arg.form[i] \in NoOwnClose =>
                /\ RunsToNextClose(i)
                /\ unit.out.data[FieldNames[i]] = Empty => ~Span(unit.arg, i).found

\* two fields without closing markers, one after the other: the value of the
\* first holds the opening markers and the values of the next two fields
C40_Witness ==
    /\ OpenDone
    /\ \E i \in 1..(NumFields - 2) :
         /\ unit.arg.form[i] = "unclosed"
         /\ unit.arg.form[i + 1] = "unclosed"
         /\ unit.arg.form[i + 2] = "plain"
         /\ unit.out.data[FieldNames[i]] =
                unit.arg.val[i] \o <<"\n">> \o OpenTag(Labels[LabelKeys[i + 1]])
                \o unit.arg.val[i + 1] \o <<"\n">> \o OpenTag(Labels[LabelKeys[i + 2]])
                \o unit.arg.val[i + 2]
         /\ unit.out.data[FieldNames[i + 2]] = unit.arg.val[i + 2]

\* the last field without its closing marker: '', and reported missing
LastFieldOpenIsEmpty ==
    /\ OpenDone
    /\ unit.arg.form[NumFields] = "unclosed"
    /\ unit.arg.val[NumFields] # Empty
    /\ unit.out.data.email_draft = Empty
    /\ unit.out.validation.missing = <<"email_draft">>

\* <NICHE></NICH>: a closing marker follows, and the value is ''
EmptyBeforeForeignClose ==
    /\ OpenDone
    /\ unit.arg.form[2] = "truncated"
    /\ unit.arg.val[2] = Empty
    /\ unit.out.data.niche = Empty
    /\ unit.out.validation.missing = <<"niche">>

====
